---- MODULE Spec2Model ----
(***************************************************************************)
(* A model of enseal: the rendezvous relay (src/server/mailbox.rs), its    *)
(* client (src/transfer/relay.rs), the signed wrapper and the envelope     *)
(* (src/crypto), the key store and name resolution (src/keys), and the     *)
(* commands that write files (src/cli), and the per-variable at-rest codec  *)
(* (src/crypto/at_rest.rs).                                                *)
(*                                                                         *)
(* Specifications:                                                         *)
(*   Spec         the relay with up to NumClients clients                  *)
(*   SpecPair     the relay with two clients, under fair scheduling        *)
(*   SpecMulti    the relay with several pairs on several codes at once    *)
(*   SpecAdmit    the relay's admission of connections over time           *)
(*   SpecTimeout  a push or listen that waits at the relay, with its timer *)
(*   SpecPush     SpecTimeout with the other clients sending data as well  *)
(*   SpecAge      Envelope::check_age                                      *)
(*   SpecEnvelope Envelope: seal, to_bytes, from_bytes                     *)
(*   SpecSign     SignedEnvelope: seal, to_bytes, from_bytes, open         *)
(*   SpecReceive  the receive command over the rendezvous mailbox          *)
(*   SpecNames    validate_identity_name and the relay's channel ids       *)
(*   SpecShare    the key store, name resolution and share --to            *)
(*   SpecKeys     keys init: the writes of EnsealIdentity::save            *)
(*   SpecFiles    encrypt, decrypt and receive writing their output        *)
(*   SpecPaths    the receive paths and the age bound of each              *)
(*   SpecAtRest   encrypt_per_var, decrypt_per_var and the text written    *)
(***************************************************************************)
EXTENDS Integers, Sequences, FiniteSets, TLC

(***************************************************************************)
(* Bounds of the model.                                                    *)
(***************************************************************************)
NumClients == 3
NumCodes == 2
NumIPs == 2
MaxFrames == 1
MaxPairFrames == 3
MaxTicks == 2
MaxWaitTicks == 2
NumWaiters == 2
NumMulti == 4
MaxMultiFrames == 2
MaxClock == 4
MaxAgeSecs == 2
NumIds == 3
MaxTextLen == 3
MaxEntries == 3
MaxValueLen == 2

(***************************************************************************)
(* The relay's configuration (ServerConfig): values of a small test        *)
(* deployment, in the manner of tests/relay.rs.                            *)
(***************************************************************************)
max_channels == 1
rate_limit_per_min == 2
max_payload_bytes == 1
channel_ttl_secs == 60

(***************************************************************************)
(* Program constants.                                                      *)
(***************************************************************************)
RateWindowSecs == 60
ChannelCapacity == 32
SkewSecs == 60
MaxEnvelopeBytes == 16 * 1024 * 1024
JsonOverhead == 120
MaxWormholePayload == 16 * 1024 * 1024
ReceiveMaxAgeSecs == 300
FileDropMaxAgeSecs == 86400

\* transfer/relay.rs: RELAY_TIMEOUT, in seconds.
RELAY_TIMEOUT == 300

\* The clock advances in steps of half the rate window.
TickSecs == RateWindowSecs \div 2

\* Every connection the relay ever sees; Spec and SpecAdmit use the first
\* NumClients of them, SpecMulti the first NumMulti.
Clients == 1..(IF NumMulti > NumClients THEN NumMulti ELSE NumClients)

Callers == 1..NumClients
Codes == 1..NumCodes
IPs == 1..NumIPs

VARIABLES
    now,             \* the relay host's monotonic clock, in seconds
    connection_log,  \* RelayState.connection_log: IP -> Vec<Instant>
    channels,        \* RelayState.channels: code -> Channel (or NoChannel)
    cstate,          \* each client's connection: idle, rejected, open, closed
    cip,             \* the IP each client connected from
    ccode,           \* the code each client connected on
    sent,            \* history: every frame each client has sent
    wsIn,            \* ws_rx: frames sent by the client the relay has not read
    recvd,           \* history: every frame each client has received
    hpc,             \* handle_socket's position for each connection
    fwdOut,          \* forward_outgoing / forward_second: none, run, done
    fwdIn,           \* forward_incoming / forward_first: none, run, done
    peer,            \* for a second peer: the first peer it paired with
    toFirst,         \* mpsc to_first_tx -> to_first_rx of each first peer
    fromFirst,       \* mpsc from_first_tx -> from_first_rx of each first peer
    upAt,            \* history: the instant of each client's upgrade request
    clock,           \* SystemTime::now() of the receiving host, in Unix seconds
    env,             \* the inner Envelope in hand
    aged,            \* history: the last call of Envelope::check_age
    senv,            \* the SignedEnvelope in hand
    sealed,          \* history: the arguments of the SignedEnvelope::seal call
    altered,         \* history: the fields changed since sealing
    wire,            \* the bytes the sending side has handed to the transport
    opened,          \* history: the last call of SignedEnvelope::open
    rcv,             \* the receive command (receive_wormhole)
    store,           \* the key store on disk: aliases, groups, trusted keys
    input,           \* the text given to the command in hand
    cmd,             \* the command in hand: its arguments, position, outcome
    fs               \* the files of the host: path -> mode and content

relayVars == <<now, connection_log, channels, cstate, cip, ccode,
               sent, wsIn, recvd, hpc, fwdOut, fwdIn, peer, toFirst, fromFirst,
               upAt>>

cryptoVars == <<clock, env, aged, senv, sealed, altered, wire, opened, rcv>>

hostVars == <<store, input, cmd, fs>>

vars == <<relayVars, cryptoVars, hostVars>>

(***************************************************************************)
(* WebSocket messages.  src is the client that sent the frame (0: the      *)
(* relay itself), seq its position among that client's frames.             *)
(***************************************************************************)
MessageKinds == {"binary", "text", "close"}

Frame(k, n, kind, len) == [src |-> k, seq |-> n, kind |-> kind, len |-> len]

CloseNone == Frame(0, 0, "close", 0)

NoChannel == [owner |-> 0, created_at |-> 0]

Range(q) == {q[i] : i \in 1..Len(q)}

(***************************************************************************)
(* RelayState::check_rate_limit                                            *)
(***************************************************************************)
RetainRecentLoose(entries, t) ==
    SelectSeq(entries, LAMBDA e : e >= t - RateWindowSecs)

RetainRecent(entries, t) ==
    SelectSeq(entries, LAMBDA e : e > t - RateWindowSecs)

RateLimited(entries) == Len(entries) >= rate_limit_per_min

(***************************************************************************)
(* handle_socket: the size check of both forwarding loops.                 *)
(***************************************************************************)
OversizedNever(msg) == FALSE

Oversized(msg) == msg.kind = "binary" /\ msg.len > max_payload_bytes

(***************************************************************************)
(* Ownership of the mpsc endpoints.  A Channel in the map owns to_first_tx *)
(* and from_first_rx; pairing moves them into the second peer's tasks.     *)
(***************************************************************************)
Waiting(k) == \E c \in Codes : channels[c].owner = k

SecondsOf(k) == {s \in Clients : peer[s] = k}

ToFirstTxAlive(k) == Waiting(k) \/ \E s \in SecondsOf(k) : fwdOut[s] = "run"

ToFirstRxAlive(k) == fwdIn[k] = "run"

FromFirstTxAlive(k) == fwdOut[k] = "run"

FromFirstRxAlive(k) == Waiting(k) \/ \E s \in SecondsOf(k) : fwdIn[s] = "run"

(***************************************************************************)
(* The relay's end of a connection lives as long as a task or the handler  *)
(* holds a half of the split socket.                                       *)
(***************************************************************************)
SocketHeld(k) ==
    \/ hpc[k] \in {"clean", "join"}
    \/ fwdOut[k] = "run"
    \/ fwdIn[k] = "run"

CloseFrameOf(k) == Frame(k, Len(sent[k]), "close", 0)

\* The relay has read the client's Close frame: writes to the socket now fail.
CloseSeen(k) ==
    /\ cstate[k] = "closed"
    /\ \A i \in 1..Len(wsIn[k]) : wsIn[k][i].kind # "close"

(***************************************************************************)
(* Values of the sealing layer before anything has been sealed, sent,      *)
(* opened or received.                                                     *)
(***************************************************************************)
NoBytes == [json |-> "none", len |-> 0]

NoEnvelope == [version |-> 0, sha256 |-> <<>>, created_at |-> 0, payload |-> ""]

NoCheck == [called |-> FALSE, max_age_secs |-> 0, at |-> 0, result |-> "none"]

NoCiphertext == [stanzas |-> {}, mac |-> {}, body |-> NoBytes, aead |-> NoBytes]

NoKeyBytes == [len |-> 0, key |-> 0]

NoSigBytes == [len |-> 0, signer |-> 0, msg |-> NoCiphertext]

NoSignedEnvelope ==
    [ciphertext |-> NoCiphertext,
     sender_sign_pubkey |-> [valid |-> FALSE, bytes |-> NoKeyBytes],
     sender_age_pubkey |-> 0,
     signature |-> [valid |-> FALSE, bytes |-> NoSigBytes]]

NoSeal == [sender |-> 0, recipients |-> {}, inner_bytes |-> NoBytes, via |-> "none"]

NoOpen == [called |-> FALSE, own |-> 0, expected |-> 0, err |-> "none",
           plaintext |-> NoBytes, steps |-> <<>>]

NoReceive == [pc |-> "idle", own |-> 0, identity_err |-> "none",
              anonymous |-> FALSE, result |-> "none"]

CryptoIdle ==
    /\ env = NoEnvelope
    /\ aged = NoCheck
    /\ senv = NoSignedEnvelope
    /\ sealed = NoSeal
    /\ altered = {}
    /\ wire = NoBytes
    /\ opened = NoOpen
    /\ rcv = NoReceive

RelayIdle ==
    /\ now = 0
    /\ connection_log = [i \in IPs |-> <<>>]
    /\ channels = [c \in Codes |-> NoChannel]
    /\ cstate = [k \in Clients |-> "idle"]
    /\ cip = [k \in Clients |-> 0]
    /\ ccode = [k \in Clients |-> 0]
    /\ sent = [k \in Clients |-> <<>>]
    /\ wsIn = [k \in Clients |-> <<>>]
    /\ recvd = [k \in Clients |-> <<>>]
    /\ hpc = [k \in Clients |-> "none"]
    /\ fwdOut = [k \in Clients |-> "none"]
    /\ fwdIn = [k \in Clients |-> "none"]
    /\ peer = [k \in Clients |-> 0]
    /\ toFirst = [k \in Clients |-> <<>>]
    /\ fromFirst = [k \in Clients |-> <<>>]
    /\ upAt = [k \in Clients |-> 0]

(***************************************************************************)
(* The host of a command: names are texts, a text is a sequence of         *)
(* characters, a character is its Unicode scalar value.                    *)
(***************************************************************************)
\* The names the key store of the model knows about: "b" and "c".
Names == {<<98>>, <<99>>}

NoName == <<>>

NoGroup == [exists |-> FALSE, members |-> <<>>]

\* An empty configuration directory: no aliases.toml, no groups.toml, no
\* trusted keys.
NoStore ==
    [aliases |-> [n \in Names |-> NoName],
     groups |-> [n \in Names |-> NoGroup],
     trusted |-> {}]

NoCmd == [op |-> "none"]

OwnKeyPaths == {"self.age.key", "self.age.pub", "self.sign.key", "self.sign.pub"}

PrivateKeyPaths == {"self.age.key", "self.sign.key"}

OutputPaths == {"out"}

Paths == OwnKeyPaths \cup OutputPaths

NoFile == [exists |-> FALSE, mode |-> {}, content |-> "none"]

HostIdle ==
    /\ store = NoStore
    /\ input = NoName
    /\ cmd = NoCmd
    /\ fs = [p \in Paths |-> NoFile]

Init ==
    /\ RelayIdle
    /\ clock = 0
    /\ CryptoIdle
    /\ HostIdle

(***************************************************************************)
(* Time passes on the relay host.                                          *)
(***************************************************************************)
Tick ==
    /\ now < MaxTicks * TickSecs
    /\ now' = now + TickSecs
    /\ UNCHANGED <<connection_log, channels, cstate, cip, ccode,
                   sent, wsIn, recvd, hpc, fwdOut, fwdIn, peer, toFirst,
                   fromFirst, upAt>>
    /\ UNCHANGED <<cryptoVars, hostVars>>

(***************************************************************************)
(* ws_handler: an upgrade request of client k from ip for /channel/{code}. *)
(* Clients, codes and IPs are numbered in the order of their first use.    *)
(***************************************************************************)
ws_handler(k, ip, code) ==
    /\ cstate[k] = "idle"
    /\ \A j \in Clients : j < k => cstate[j] # "idle"
    /\ \A c \in Codes : c < code => \E j \in Clients : ccode[j] = c
    /\ \A i \in IPs : i < ip => \E j \in Clients : cip[j] = i
    /\ LET entries == RetainRecent(connection_log[ip], now)
           limited == RateLimited(entries)
       IN  /\ connection_log' =
                [connection_log EXCEPT
                    ![ip] = IF limited THEN entries ELSE Append(entries, now)]
           /\ cstate' = [cstate EXCEPT ![k] = IF limited THEN "rejected" ELSE "open"]
           /\ hpc' = [hpc EXCEPT ![k] = IF limited THEN "none" ELSE "clean"]
    /\ cip' = [cip EXCEPT ![k] = ip]
    /\ ccode' = [ccode EXCEPT ![k] = code]
    /\ upAt' = [upAt EXCEPT ![k] = now]
    /\ UNCHANGED <<now, channels, sent, wsIn, recvd, fwdOut,
                   fwdIn, peer, toFirst, fromFirst>>
    /\ UNCHANGED <<cryptoVars, hostVars>>

(***************************************************************************)
(* handle_socket, first lock: channels.retain(created_at.elapsed() < ttl). *)
(* A Channel dropped from the map takes to_first_tx and from_first_rx (and *)
(* the frames buffered in it) with it.                                     *)
(***************************************************************************)
\* A relay that never evicts.
ExpiredNever(ch, t) == FALSE

\* channels.retain: the entries whose age has reached the TTL go.
Expired(ch, t) == ch.owner # 0 /\ ~(t - ch.created_at < channel_ttl_secs)

DropBuffered(q, dropped) ==
    [f \in Clients |-> IF f \in dropped THEN <<>> ELSE q[f]]

CleanExpired(k) ==
    /\ hpc[k] = "clean"
    /\ LET gone == {c \in Codes : Expired(channels[c], now)}
       IN  /\ channels' = [c \in Codes |-> IF c \in gone THEN NoChannel ELSE channels[c]]
           /\ fromFirst' = DropBuffered(fromFirst, {channels[c].owner : c \in gone})
    /\ hpc' = [hpc EXCEPT ![k] = "join"]
    /\ UNCHANGED <<now, connection_log, cstate, cip, ccode, sent,
                   wsIn, recvd, fwdOut, fwdIn, peer, toFirst, upAt>>
    /\ UNCHANGED <<cryptoVars, hostVars>>

(***************************************************************************)
(* handle_socket, second lock: channels.remove(&code) pairs the connection *)
(* with the waiting first peer; otherwise the connection is refused when   *)
(* the map is full, or becomes the first peer of a new Channel.  Both      *)
(* forwarding tasks are spawned in either mode.                            *)
(***************************************************************************)
LiveChannels(chs) == {c \in Codes : chs[c].owner # 0}

MapFullOffByOne(chs) == Cardinality(LiveChannels(chs)) > max_channels

MapFull(chs) == Cardinality(LiveChannels(chs)) >= max_channels

AfterPairingKeep(chs, code) == chs

AfterPairing(chs, code) == [chs EXCEPT ![code] = NoChannel]

\* ws_tx.send(msg) on k's socket: the frame reaches the client while it is open.
Received(k, msg) == IF cstate[k] = "open" THEN Append(recvd[k], msg) ELSE recvd[k]

\* A relay that hands a joining client whichever peer is waiting, on any code.
WaitingOnAnyCode(chs, code) ==
    IF \E c \in Codes : chs[c].owner # 0
    THEN chs[CHOOSE c \in Codes : chs[c].owner # 0].owner
    ELSE 0

\* A relay whose lookup of the code never finds the waiting peer.
WaitingOnNobody(chs, code) == 0

\* channels.remove(&code): the peer waiting on exactly this code, if any.
WaitingOn(chs, code) == chs[code].owner

JoinChannel(k) ==
    /\ hpc[k] = "join"
    /\ LET code == ccode[k]
           first == WaitingOn(channels, code)
       IN  IF first # 0
           THEN /\ channels' = AfterPairing(channels, code)
                /\ peer' = [peer EXCEPT ![k] = first]
                /\ hpc' = [hpc EXCEPT ![k] = "second"]
                /\ fwdOut' = [fwdOut EXCEPT ![k] = "run"]
                /\ fwdIn' = [fwdIn EXCEPT ![k] = "run"]
                /\ UNCHANGED recvd
           ELSE IF MapFull(channels)
           THEN /\ recvd' = [recvd EXCEPT ![k] = Received(k, CloseNone)]
                /\ hpc' = [hpc EXCEPT ![k] = "done"]
                /\ UNCHANGED <<channels, peer, fwdOut, fwdIn>>
           ELSE /\ channels' = [channels EXCEPT
                                  ![code] = [owner |-> k, created_at |-> now]]
                /\ hpc' = [hpc EXCEPT ![k] = "first"]
                /\ fwdOut' = [fwdOut EXCEPT ![k] = "run"]
                /\ fwdIn' = [fwdIn EXCEPT ![k] = "run"]
                /\ UNCHANGED <<peer, recvd>>
    /\ UNCHANGED <<now, connection_log, cstate, cip, ccode, sent,
                   wsIn, toFirst, fromFirst, upAt>>
    /\ UNCHANGED <<cryptoVars, hostVars>>

IsFirst(k) == fwdOut[k] # "none" /\ peer[k] = 0

\* mpsc::Sender::send: the message joins the back of the bounded queue.
SendFront(q, msg) == <<msg>> \o q

Send(q, msg) == Append(q, msg)

IsSecond(k) == peer[k] # 0

(***************************************************************************)
(* forward_outgoing: first client's socket -> from_first_tx.               *)
(***************************************************************************)
forward_outgoing(k) ==
    /\ IsFirst(k)
    /\ fwdOut[k] = "run"
    /\ wsIn[k] # <<>>
    /\ LET msg == Head(wsIn[k])
       IN  IF msg.kind = "close" \/ Oversized(msg) \/ ~FromFirstRxAlive(k)
           THEN /\ fwdOut' = [fwdOut EXCEPT ![k] = "done"]
                /\ UNCHANGED fromFirst
           ELSE /\ Len(fromFirst[k]) < ChannelCapacity
                /\ fromFirst' = [fromFirst EXCEPT ![k] = Send(@, msg)]
                /\ UNCHANGED fwdOut
    /\ wsIn' = [wsIn EXCEPT ![k] = Tail(@)]
    /\ UNCHANGED <<now, connection_log, channels, cstate, cip,
                   ccode, sent, recvd, hpc, fwdIn, peer, toFirst, upAt>>
    /\ UNCHANGED <<cryptoVars, hostVars>>

(***************************************************************************)
(* forward_second: second client's socket -> first_client_tx, and a        *)
(* Close(None) to the first client when the loop ends.                     *)
(***************************************************************************)
forward_second(k) ==
    /\ IsSecond(k)
    /\ fwdOut[k] = "run"
    /\ wsIn[k] # <<>>
    /\ LET msg == Head(wsIn[k])
           f == peer[k]
       IN  IF msg.kind = "close" \/ Oversized(msg) \/ ~ToFirstRxAlive(f)
           THEN /\ fwdOut' = [fwdOut EXCEPT ![k] = "done"]
                /\ IF ToFirstRxAlive(f)
                   THEN /\ Len(toFirst[f]) < ChannelCapacity
                        /\ toFirst' = [toFirst EXCEPT ![f] = Send(@, CloseNone)]
                   ELSE UNCHANGED toFirst
           ELSE /\ Len(toFirst[f]) < ChannelCapacity
                /\ toFirst' = [toFirst EXCEPT ![f] = Send(@, msg)]
                /\ UNCHANGED fwdOut
    /\ wsIn' = [wsIn EXCEPT ![k] = Tail(@)]
    /\ UNCHANGED <<now, connection_log, channels, cstate, cip,
                   ccode, sent, recvd, hpc, fwdIn, peer, fromFirst, upAt>>
    /\ UNCHANGED <<cryptoVars, hostVars>>

(***************************************************************************)
(* forward_incoming: to_first_rx -> first client's socket.                 *)
(***************************************************************************)
forward_incoming(k) ==
    /\ IsFirst(k)
    /\ fwdIn[k] = "run"
    /\ IF toFirst[k] # <<>>
       THEN /\ toFirst' = [toFirst EXCEPT ![k] = IF CloseSeen(k) THEN <<>> ELSE Tail(@)]
            /\ fwdIn' = [fwdIn EXCEPT ![k] = IF CloseSeen(k) THEN "done" ELSE @]
            /\ recvd' = [recvd EXCEPT ![k] = Received(k, Head(toFirst[k]))]
       ELSE /\ ~ToFirstTxAlive(k)
            /\ fwdIn' = [fwdIn EXCEPT ![k] = "done"]
            /\ UNCHANGED <<toFirst, recvd>>
    /\ UNCHANGED <<now, connection_log, channels, cstate, cip,
                   ccode, sent, wsIn, hpc, fwdOut, peer, fromFirst, upAt>>
    /\ UNCHANGED <<cryptoVars, hostVars>>

(***************************************************************************)
(* forward_first: first_client_rx -> second client's socket.               *)
(***************************************************************************)
forward_first(k) ==
    /\ IsSecond(k)
    /\ fwdIn[k] = "run"
    /\ LET f == peer[k]
       IN  IF fromFirst[f] # <<>>
           THEN /\ fromFirst' = [fromFirst EXCEPT
                                   ![f] = IF CloseSeen(k) THEN <<>> ELSE Tail(@)]
                /\ fwdIn' = [fwdIn EXCEPT ![k] = IF CloseSeen(k) THEN "done" ELSE @]
                /\ recvd' = [recvd EXCEPT ![k] = Received(k, Head(fromFirst[f]))]
           ELSE /\ ~FromFirstTxAlive(f)
                /\ fwdIn' = [fwdIn EXCEPT ![k] = "done"]
                /\ UNCHANGED <<fromFirst, recvd>>
    /\ UNCHANGED <<now, connection_log, channels, cstate, cip,
                   ccode, sent, wsIn, hpc, fwdOut, peer, toFirst, upAt>>
    /\ UNCHANGED <<cryptoVars, hostVars>>

(***************************************************************************)
(* handle_socket after tokio::select!: either task of the connection has   *)
(* finished (the other keeps running: dropping a JoinHandle detaches the   *)
(* task).  A first peer then removes the map's entry for its code.         *)
(***************************************************************************)
TaskFinished(k) == fwdOut[k] = "done" \/ fwdIn[k] = "done"

\* A handler that returns without removing its Channel from the map.
FirstCleanupKeeps(k) ==
    /\ hpc[k] = "first"
    /\ TaskFinished(k)
    /\ hpc' = [hpc EXCEPT ![k] = "done"]
    /\ UNCHANGED <<now, connection_log, channels, cstate, cip, ccode, sent,
                   wsIn, recvd, fwdOut, fwdIn, peer, toFirst, fromFirst, upAt>>
    /\ UNCHANGED <<cryptoVars, hostVars>>

FirstCleanup(k) ==
    /\ hpc[k] = "first"
    /\ TaskFinished(k)
    /\ channels' = [channels EXCEPT ![ccode[k]] = NoChannel]
    /\ fromFirst' = DropBuffered(fromFirst, {channels[ccode[k]].owner})
    /\ hpc' = [hpc EXCEPT ![k] = "done"]
    /\ UNCHANGED <<now, connection_log, cstate, cip, ccode, sent,
                   wsIn, recvd, fwdOut, fwdIn, peer, toFirst, upAt>>
    /\ UNCHANGED <<cryptoVars, hostVars>>

\* handle_socket has returned: it was refused, or either of its tasks finished
\* (a second peer's handler has nothing left to do after the select).
HandlerReturned(k) ==
    \/ hpc[k] = "done"
    \/ hpc[k] = "second" /\ TaskFinished(k)

(***************************************************************************)
(* The clients: any WebSocket peer.  It sends binary and text frames, of a *)
(* length at or just over the limit, and closes when it likes.             *)
(***************************************************************************)
ClientFrames ==
    { [kind |-> "binary", len |-> max_payload_bytes],
      [kind |-> "binary", len |-> max_payload_bytes + 1],
      [kind |-> "text", len |-> max_payload_bytes + 1] }

RECURSIVE SumLen(_, _)
SumLen(q, ks) ==
    IF ks = {} THEN 0
    ELSE LET k == CHOOSE x \in ks : TRUE
         IN  Len(SelectSeq(q[k], LAMBDA m : m.kind # "close")) + SumLen(q, ks \ {k})

\* The data frames all clients have sent so far.
FramesSent == SumLen(sent, Clients)

ClientSend(k, kind, len, budget) ==
    /\ cstate[k] = "open"
    /\ SocketHeld(k)
    /\ FramesSent < budget
    /\ LET msg == Frame(k, Len(sent[k]) + 1, kind, len)
       IN  /\ sent' = [sent EXCEPT ![k] = Append(@, msg)]
           /\ wsIn' = [wsIn EXCEPT ![k] = Append(@, msg)]
    /\ UNCHANGED <<now, connection_log, channels, cstate, cip,
                   ccode, recvd, hpc, fwdOut, fwdIn, peer, toFirst, fromFirst,
                   upAt>>
    /\ UNCHANGED <<cryptoVars, hostVars>>

ClientClose(k) ==
    /\ cstate[k] = "open"
    /\ cstate' = [cstate EXCEPT ![k] = "closed"]
    /\ LET msg == Frame(k, Len(sent[k]) + 1, "close", 0)
       IN  /\ sent' = [sent EXCEPT ![k] = Append(@, msg)]
           /\ wsIn' = [wsIn EXCEPT ![k] = IF SocketHeld(k) THEN Append(@, msg) ELSE @]
    /\ UNCHANGED <<now, connection_log, channels, cip, ccode,
                   recvd, hpc, fwdOut, fwdIn, peer, toFirst, fromFirst, upAt>>
    /\ UNCHANGED <<cryptoVars, hostVars>>

RelayStep(k) ==
    \/ CleanExpired(k)
    \/ JoinChannel(k)
    \/ forward_outgoing(k)
    \/ forward_second(k)
    \/ forward_incoming(k)
    \/ forward_first(k)
    \/ FirstCleanup(k)

ClientStep(k, budget) ==
    \/ \E m \in ClientFrames : ClientSend(k, m.kind, m.len, budget)
    \/ ClientClose(k)

(***************************************************************************)
(* Spec: up to NumClients clients, MaxFrames data frames, no time passing. *)
(***************************************************************************)
Next ==
    \/ \E k \in Callers, ip \in IPs, code \in Codes : ws_handler(k, ip, code)
    \/ \E k \in Callers : RelayStep(k)
    \/ \E k \in Callers : ClientStep(k, MaxFrames)

Spec == Init /\ [][Next]_vars

(***************************************************************************)
(* SpecPair: two clients of one host, MaxPairFrames data frames, under the *)
(* fairness of the tokio scheduler (every spawned task that can run,       *)
(* does).                                                                  *)
(***************************************************************************)
Pair == {1, 2}

NextPair ==
    \/ \E k \in Pair, code \in Codes : ws_handler(k, 1, code)
    \/ \E k \in Pair : RelayStep(k)
    \/ \E k \in Pair : ClientStep(k, MaxPairFrames)

SpecPair ==
    /\ Init
    /\ [][NextPair]_vars
    /\ \A k \in Pair : WF_vars(RelayStep(k))

(***************************************************************************)
(* SpecMulti: NumMulti clients of two hosts on several codes at once, each *)
(* sending binary frames within the limit.                                 *)
(***************************************************************************)
Multi == 1..NumMulti

HostOf(k) == IF 2 * k <= NumMulti THEN 1 ELSE 2

\* A client that has sent its data, or has received some, is done.
Done(k) == sent[k] # <<>> \/ \E m \in Range(recvd[k]) : m.kind = "binary"

NextMulti ==
    \/ \E k \in Multi, code \in Codes : ws_handler(k, HostOf(k), code)
    \/ \E k \in Multi : RelayStep(k)
    \/ \E k \in Multi : ClientSend(k, "binary", max_payload_bytes, MaxMultiFrames)
    \/ \E k \in Multi : Done(k) /\ ClientClose(k)

SpecMulti == Init /\ [][NextMulti]_vars

(***************************************************************************)
(* SpecAdmit: admission over time.  Clients connect and close; the clock   *)
(* advances.                                                               *)
(***************************************************************************)
NextAdmit ==
    \/ Tick
    \/ \E k \in Callers, ip \in IPs, code \in Codes : ws_handler(k, ip, code)
    \/ \E k \in Callers : RelayStep(k)
    \/ \E k \in Callers : ClientClose(k)

SpecAdmit == Init /\ [][NextAdmit]_vars

(***************************************************************************)
(* The inner envelope (src/crypto/envelope.rs).                            *)
(***************************************************************************)
Contents == {"A=1", "B=22"}

\* hex_sha256: a digest stands for the text it was computed from.
hex_sha256(content) == <<"sha256", content>>

\* Envelope::seal at the instant t of the sealing host's clock.
Envelope_seal(content, t) ==
    [version |-> 1, sha256 |-> hex_sha256(content), created_at |-> t,
     payload |-> content]

\* u64::saturating_sub
saturating_sub(a, b) == IF a >= b THEN a - b ELSE 0

\* Envelope::check_age(max_age_secs) called at the instant t.  t + SkewSecs
\* cannot wrap: t is a SystemTime in seconds, far below 2^64.
check_age_zero_accepted(e, max_age_secs, t) ==
    IF e.created_at > t + SkewSecs THEN "future"
    ELSE IF saturating_sub(t, e.created_at) > max_age_secs THEN "expired"
    ELSE "ok"

check_age(e, max_age_secs, t) ==
    IF e.created_at = 0 THEN "no timestamp"
    ELSE IF e.created_at > t + SkewSecs THEN "future"
    ELSE IF saturating_sub(t, e.created_at) > max_age_secs THEN "expired"
    ELSE "ok"

\* A content of MaxEnvelopeBytes bytes, which the model does not spell out.
BigContent == "BIG"

\* str::len, in bytes
ByteLen(content) == IF content = BigContent THEN MaxEnvelopeBytes ELSE Len(content)

\* Envelope::to_bytes: the JSON text, as long as its payload and then some.
Envelope_to_bytes(e) ==
    [json |-> "Envelope", len |-> JsonOverhead + ByteLen(e.payload),
     version |-> e.version, sha256 |-> e.sha256, created_at |-> e.created_at,
     payload |-> e.payload]

\* A from_bytes that does not compare the hash.
Envelope_from_bytes_unverified(data) ==
    IF data.len > MaxEnvelopeBytes
    THEN [err |-> "too large", envelope |-> NoEnvelope]
    ELSE IF data.json # "Envelope"
    THEN [err |-> "deserialize", envelope |-> NoEnvelope]
    ELSE IF data.version # 1
    THEN [err |-> "version", envelope |-> NoEnvelope]
    ELSE [err |-> "none",
          envelope |-> [version |-> data.version, sha256 |-> data.sha256,
                        created_at |-> data.created_at, payload |-> data.payload]]

\* Envelope::from_bytes: size, shape, version and hash, in that order.
Envelope_from_bytes(data) ==
    IF data.len > MaxEnvelopeBytes
    THEN [err |-> "too large", envelope |-> NoEnvelope]
    ELSE IF data.json # "Envelope"
    THEN [err |-> "deserialize", envelope |-> NoEnvelope]
    ELSE IF data.version # 1
    THEN [err |-> "version", envelope |-> NoEnvelope]
    ELSE IF data.sha256 # hex_sha256(data.payload)
    THEN [err |-> "hash mismatch", envelope |-> NoEnvelope]
    ELSE [err |-> "none",
          envelope |-> [version |-> data.version, sha256 |-> data.sha256,
                        created_at |-> data.created_at, payload |-> data.payload]]

\* The JSON texts of an Envelope a peer can put together, well formed or not.
EnvelopeTexts ==
    { [json |-> "Envelope", len |-> l, version |-> v, sha256 |-> hex_sha256(h),
       created_at |-> c, payload |-> p] :
        l \in {JsonOverhead + 3, MaxEnvelopeBytes + 1}, v \in {1, 2},
        h \in Contents, c \in 0..(MaxClock + SkewSecs + 1), p \in Contents }

(***************************************************************************)
(* SpecAge: envelopes are sealed here or arrive from elsewhere, time       *)
(* passes, and check_age is asked about the envelope in hand.  The record  *)
(* of a call lasts until the envelope or the clock changes.                *)
(***************************************************************************)
ClockAdvance ==
    /\ clock < MaxClock
    /\ clock' = clock + 1
    /\ aged' = NoCheck
    /\ UNCHANGED <<env, senv, sealed, altered, wire, opened, rcv>>
    /\ UNCHANGED <<relayVars, hostVars>>

SealEnvelope(content) ==
    /\ env' = Envelope_seal(content, clock)
    /\ aged' = NoCheck
    /\ UNCHANGED <<clock, senv, sealed, altered, wire, opened, rcv>>
    /\ UNCHANGED <<relayVars, hostVars>>

ParseEnvelope(data) ==
    /\ LET got == Envelope_from_bytes(data)
       IN  env' = IF got.err = "none" THEN got.envelope ELSE env
    /\ aged' = NoCheck
    /\ UNCHANGED <<clock, senv, sealed, altered, wire, opened, rcv>>
    /\ UNCHANGED <<relayVars, hostVars>>

CheckAge(max_age_secs) ==
    /\ env # NoEnvelope
    /\ aged' = [called |-> TRUE, max_age_secs |-> max_age_secs, at |-> clock,
                result |-> check_age(env, max_age_secs, clock)]
    /\ UNCHANGED <<clock, env, senv, sealed, altered, wire, opened, rcv>>
    /\ UNCHANGED <<relayVars, hostVars>>

InitAge ==
    /\ RelayIdle
    /\ clock \in 0..MaxClock
    /\ CryptoIdle
    /\ HostIdle

NextAge ==
    \/ ClockAdvance
    \/ \E content \in Contents : SealEnvelope(content)
    \/ \E data \in EnvelopeTexts : ParseEnvelope(data)
    \/ \E n \in 0..MaxAgeSecs : CheckAge(n)

SpecAge == InitAge /\ [][NextAge]_vars

(***************************************************************************)
(* SpecEnvelope: an envelope is sealed and written out with to_bytes, the  *)
(* text may be changed field by field on its way, and from_bytes reads it. *)
(***************************************************************************)
SealContents == Contents \cup {BigContent}

EnvelopeFields == {"payload", "sha256", "version"}

\* What a field of the JSON text can be changed to.
OtherFieldValues(f) ==
    IF wire = NoBytes THEN {}
    ELSE IF f = "payload" THEN SealContents \ {wire.payload}
    ELSE IF f = "sha256" THEN {hex_sha256(c) : c \in SealContents} \ {wire.sha256}
    ELSE {2}

\* Envelope::seal and then to_bytes
SealToBytes(content) ==
    /\ env = NoEnvelope
    /\ env' = Envelope_seal(content, clock)
    /\ wire' = Envelope_to_bytes(Envelope_seal(content, clock))
    /\ UNCHANGED <<clock, aged, senv, sealed, altered, opened, rcv>>
    /\ UNCHANGED <<relayVars, hostVars>>

\* One field of the text is changed; a changed payload changes the length.
AlterText(f, v) ==
    /\ wire # NoBytes
    /\ cmd = NoCmd
    /\ f \notin altered
    /\ wire' = IF f = "payload"
               THEN [wire EXCEPT !.payload = v, !.len = JsonOverhead + ByteLen(v)]
               ELSE [wire EXCEPT ![f] = v]
    /\ altered' = altered \cup {f}
    /\ UNCHANGED <<clock, env, aged, senv, sealed, opened, rcv>>
    /\ UNCHANGED <<relayVars, hostVars>>

\* Envelope::from_bytes on the text
FromBytes ==
    /\ wire # NoBytes
    /\ cmd = NoCmd
    /\ LET got == Envelope_from_bytes(wire)
       IN  cmd' = [op |-> "from_bytes", err |-> got.err, envelope |-> got.envelope]
    /\ UNCHANGED <<store, input, fs>>
    /\ UNCHANGED <<relayVars, cryptoVars>>

NextEnvelope ==
    \/ ClockAdvance
    \/ \E content \in SealContents : SealToBytes(content)
    \/ \E f \in EnvelopeFields : \E v \in OtherFieldValues(f) : AlterText(f, v)
    \/ FromBytes

SpecEnvelope == Init /\ [][NextEnvelope]_vars

(***************************************************************************)
(* The signed wrapper (src/crypto/signing.rs).  Identity i holds the       *)
(* ed25519 signing key i and the age identity i; its verifying key and its *)
(* age recipient are the public halves of the two.                         *)
(***************************************************************************)
Ids == 1..NumIds

\* Option<&TrustedKey>::None
NoSender == 0

\* VerifyingKey::to_bytes: 32 bytes naming the key.
VerifyingKeyBytes(i) == [len |-> 32, key |-> i]

\* 32 bytes that are not the encoding of a curve point.
NotAPoint == [len |-> 32, key |-> 0]

\* base64 STANDARD.encode and .decode
Encode(bytes) == [valid |-> TRUE, bytes |-> bytes]

Decode(text) == [ok |-> text.valid, bytes |-> text.bytes]

\* age::Encryptor::with_recipients(..).wrap_output: one stanza per recipient
\* under a header MAC, and the payload under an AEAD; both keyed by a file key
\* only the recipients can unwrap.
age_encrypt_to_nobody(data, recipients) ==
    [stanzas |-> {}, mac |-> {}, body |-> data, aead |-> data]

age_encrypt_multi(data, recipients) ==
    [stanzas |-> recipients, mac |-> recipients, body |-> data, aead |-> data]

\* age::Decryptor::new(..).decrypt(identity) and read_to_end
age_decrypt(ciphertext, identity) ==
    IF \/ identity \notin ciphertext.stanzas
       \/ ciphertext.mac # ciphertext.stanzas
       \/ ciphertext.aead # ciphertext.body
    THEN [err |-> "decryption failed", plaintext |-> NoBytes]
    ELSE [err |-> "none", plaintext |-> ciphertext.body]

\* ed25519: SigningKey::sign and VerifyingKey::verify
Sign(signing_key, msg) == [len |-> 64, signer |-> signing_key, msg |-> msg]

VerifyAnything(key, msg, sig) == TRUE

Verify(key, msg, sig) == sig.signer = key /\ sig.msg = msg

\* verifying_key != trusted.verifying_key
KeysDifferNever(key, trusted) == FALSE

KeysDiffer(key, trusted) == key # trusted

\* SignedEnvelope::seal
seal(inner_bytes, recipients, sender) ==
    LET ciphertext == age_encrypt_multi(inner_bytes, recipients)
        signature == Sign(sender, ciphertext)
    IN  [ciphertext |-> ciphertext,
         sender_sign_pubkey |-> Encode(VerifyingKeyBytes(sender)),
         sender_age_pubkey |-> sender,
         signature |-> Encode(signature)]

\* SignedEnvelope::open: the error or the plaintext, and the steps taken.
open(se, own_identity, expected_sender) ==
    LET sign_bytes == Decode(se.sender_sign_pubkey)
        sig_bytes == Decode(se.signature)
        verifying_key == sign_bytes.bytes.key
        s1 == <<"decode key">>
        s2 == IF expected_sender # NoSender THEN Append(s1, "check sender") ELSE s1
        s3 == Append(s2, "decode signature")
        s4 == Append(s3, "verify")
        s5 == Append(s4, "decrypt")
        Fail(e, steps) == [err |-> e, plaintext |-> NoBytes, steps |-> steps]
    IN  IF ~sign_bytes.ok THEN Fail("invalid sender signing key encoding", s1)
        ELSE IF sign_bytes.bytes.len # 32
        THEN Fail("invalid sender signing key length", s1)
        ELSE IF sign_bytes.bytes = NotAPoint
        THEN Fail("invalid sender signing key", s1)
        ELSE IF expected_sender # NoSender /\ KeysDiffer(verifying_key, expected_sender)
        THEN Fail("sender key mismatch", s2)
        ELSE IF ~sig_bytes.ok THEN Fail("invalid signature encoding", s3)
        ELSE IF sig_bytes.bytes.len # 64 THEN Fail("invalid signature length", s3)
        ELSE IF ~Verify(verifying_key, se.ciphertext, sig_bytes.bytes)
        THEN Fail("signature verification failed", s4)
        ELSE LET got == age_decrypt(se.ciphertext, own_identity)
             IN  [err |-> got.err, plaintext |-> got.plaintext, steps |-> s5]

\* SignedEnvelope::to_bytes: the JSON text; the ciphertext is an array of numbers.
to_bytes(se) ==
    [json |-> "SignedEnvelope", len |-> JsonOverhead + 4 * se.ciphertext.body.len,
     ciphertext |-> se.ciphertext, sender_sign_pubkey |-> se.sender_sign_pubkey,
     sender_age_pubkey |-> se.sender_age_pubkey, signature |-> se.signature]

\* SignedEnvelope::from_bytes
from_bytes(data) ==
    IF data.json # "SignedEnvelope"
    THEN [err |-> "deserialize", envelope |-> NoSignedEnvelope]
    ELSE [err |-> "none",
          envelope |-> [ciphertext |-> data.ciphertext,
                        sender_sign_pubkey |-> data.sender_sign_pubkey,
                        sender_age_pubkey |-> data.sender_age_pubkey,
                        signature |-> data.signature]]

(***************************************************************************)
(* SpecSign: a sender seals bytes for some recipients; the SignedEnvelope  *)
(* may go through to_bytes and from_bytes; whoever handles it on the way   *)
(* may change its fields, with every key but the sender's signing key at   *)
(* hand; a receiver opens it.  The record of a call of open lasts until    *)
(* the SignedEnvelope changes.                                             *)
(***************************************************************************)
RawBytes == [json |-> "raw", len |-> 5]

InnerBytes ==
    {Envelope_to_bytes(Envelope_seal(content, clock)) : content \in Contents}
        \cup {RawBytes}

Seal(inner_bytes, recipients, sender) ==
    /\ sealed = NoSeal
    /\ recipients # {}
    /\ senv' = seal(inner_bytes, recipients, sender)
    /\ sealed' = [sender |-> sender, recipients |-> recipients,
                  inner_bytes |-> inner_bytes, via |-> "memory"]
    /\ UNCHANGED <<clock, env, aged, altered, wire, opened, rcv>>
    /\ UNCHANGED <<relayVars, hostVars>>

Serialize ==
    /\ sealed # NoSeal
    /\ altered = {}
    /\ wire = NoBytes
    /\ wire' = to_bytes(senv)
    /\ UNCHANGED <<clock, env, aged, senv, sealed, altered, opened, rcv>>
    /\ UNCHANGED <<relayVars, hostVars>>

Deserialize ==
    /\ wire # NoBytes
    /\ altered = {}
    /\ sealed.via = "memory"
    /\ LET got == from_bytes(wire)
       IN  /\ got.err = "none"
           /\ senv' = got.envelope
    /\ sealed' = [sealed EXCEPT !.via = "wire"]
    /\ opened' = NoOpen
    /\ UNCHANGED <<clock, env, aged, altered, wire, rcv>>
    /\ UNCHANGED <<relayVars, hostVars>>

\* What a field can be changed to.  A signature under the sender's key exists
\* only over the ciphertext the sender sealed.
OtherCiphertexts ==
    LET ct == senv.ciphertext
    IN  { [ct EXCEPT !.body = RawBytes],
          [ct EXCEPT !.stanzas = Ids],
          age_encrypt_multi(RawBytes, sealed.recipients),
          age_encrypt_multi(sealed.inner_bytes, Ids) }

OtherSignatures ==
    { [valid |-> FALSE, bytes |-> NoSigBytes],
      Encode([len |-> 5, signer |-> 0, msg |-> NoCiphertext]) }
        \cup {Encode(Sign(j, senv.ciphertext)) : j \in Ids \ {sealed.sender}}

OtherKeys ==
    { [valid |-> FALSE, bytes |-> NoKeyBytes],
      Encode([len |-> 5, key |-> 0]),
      Encode(NotAPoint) }
        \cup {Encode(VerifyingKeyBytes(j)) : j \in Ids \ {sealed.sender}}

Fields == {"ciphertext", "signature", "sender_sign_pubkey"}

OtherValues(field) ==
    IF field = "ciphertext" THEN OtherCiphertexts
    ELSE IF field = "signature" THEN OtherSignatures
    ELSE OtherKeys

Alter(field, value) ==
    /\ sealed # NoSeal
    /\ field \notin altered
    /\ value # senv[field]
    /\ senv' = [senv EXCEPT ![field] = value]
    /\ altered' = altered \cup {field}
    /\ opened' = NoOpen
    /\ UNCHANGED <<clock, env, aged, sealed, wire, rcv>>
    /\ UNCHANGED <<relayVars, hostVars>>

Open(own_identity, expected_sender) ==
    /\ sealed # NoSeal
    /\ LET got == open(senv, own_identity, expected_sender)
       IN  opened' = [called |-> TRUE, own |-> own_identity,
                      expected |-> expected_sender, err |-> got.err,
                      plaintext |-> got.plaintext, steps |-> got.steps]
    /\ UNCHANGED <<clock, env, aged, senv, sealed, altered, wire, rcv>>
    /\ UNCHANGED <<relayVars, hostVars>>

NextSign ==
    \/ \E p \in InnerBytes, R \in SUBSET Ids, s \in Ids : Seal(p, R, s)
    \/ Serialize
    \/ Deserialize
    \/ \E f \in Fields : \E v \in OtherValues(f) : Alter(f, v)
    \/ \E r \in Ids, e \in Ids \cup {NoSender} : Open(r, e)

SpecSign == Init /\ [][NextSign]_vars

(***************************************************************************)
(* The transfers over the rendezvous mailbox (src/transfer/identity.rs,    *)
(* src/transfer/wormhole.rs).  A transport step fails, or yields the bytes *)
(* the peer has sent.                                                      *)
(***************************************************************************)
Transport(ok) == [ok |-> ok, data |-> IF ok THEN wire ELSE NoBytes]

ReceiveFailed(e) == [err |-> e, envelope |-> NoEnvelope]

\* Envelope::from_bytes(..)? and then envelope.check_age(300)?
CheckedEnvelope(data, t) ==
    LET got == Envelope_from_bytes(data)
        age == check_age(got.envelope, ReceiveMaxAgeSecs, t)
    IN  IF got.err # "none" THEN ReceiveFailed(got.err)
        ELSE IF age # "ok" THEN ReceiveFailed(age)
        ELSE [err |-> "none", envelope |-> got.envelope]

\* transfer::identity::receive
identity_receive(transport, own_identity, expected_sender, t) ==
    IF ~transport.ok THEN ReceiveFailed("transport")
    ELSE IF transport.data.len > MaxWormholePayload THEN ReceiveFailed("too large")
    ELSE LET signed == from_bytes(transport.data)
             inner == open(signed.envelope, own_identity, expected_sender)
         IN  IF signed.err # "none" THEN ReceiveFailed(signed.err)
             ELSE IF inner.err # "none" THEN ReceiveFailed(inner.err)
             ELSE CheckedEnvelope(inner.plaintext, t)

\* transfer::wormhole::receive
wormhole_receive(transport, t) ==
    IF ~transport.ok THEN ReceiveFailed("transport")
    ELSE IF transport.data.len > MaxWormholePayload THEN ReceiveFailed("too large")
    ELSE CheckedEnvelope(transport.data, t)

\* transfer::identity::create_mailbox and send: the sender's side.
IdentitySend(content, recipients, sender) ==
    /\ wire = NoBytes
    /\ recipients # {}
    /\ LET inner_bytes == Envelope_to_bytes(Envelope_seal(content, clock))
           signed == seal(inner_bytes, recipients, sender)
       IN  /\ senv' = signed
           /\ sealed' = [sender |-> sender, recipients |-> recipients,
                         inner_bytes |-> inner_bytes, via |-> "wire"]
           /\ wire' = to_bytes(signed)
    /\ UNCHANGED <<clock, env, aged, altered, opened, rcv>>
    /\ UNCHANGED <<relayVars, hostVars>>

\* transfer::wormhole::send: the sender's side, or any peer that knows the code
\* and sends a text of its own making.
WormholeSend(data) ==
    /\ wire = NoBytes
    /\ wire' = data
    /\ UNCHANGED <<clock, env, aged, senv, sealed, altered, opened, rcv>>
    /\ UNCHANGED <<relayVars, hostVars>>

\* The bytes of a SignedEnvelope are changed before the receiver reads them.
Interfere(field, value) ==
    /\ sealed # NoSeal
    /\ rcv.pc = "idle"
    /\ altered = {}
    /\ value # senv[field]
    /\ wire' = to_bytes([senv EXCEPT ![field] = value])
    /\ altered' = {field}
    /\ UNCHANGED <<clock, env, aged, senv, sealed, opened, rcv>>
    /\ UNCHANGED <<relayVars, hostVars>>

(***************************************************************************)
(* receive_wormhole (src/cli/receive.rs): with keys initialised the        *)
(* identity-mode receive is tried first, and on any error of it the        *)
(* anonymous receive follows.                                              *)
(***************************************************************************)
ReceiveStart(own_identity, initialized) ==
    /\ rcv.pc = "idle"
    /\ wire # NoBytes
    /\ rcv' = [rcv EXCEPT !.own = own_identity,
                          !.pc = IF initialized THEN "identity" ELSE "anonymous"]
    /\ UNCHANGED <<clock, env, aged, senv, sealed, altered, wire, opened>>
    /\ UNCHANGED <<relayVars, hostVars>>

IdentityStep(ok) ==
    /\ rcv.pc = "identity"
    /\ LET got == identity_receive(Transport(ok), rcv.own, NoSender, clock)
       IN  /\ rcv' = IF got.err = "none"
                     THEN [rcv EXCEPT !.pc = "done", !.result = "ok"]
                     ELSE [rcv EXCEPT !.pc = "anonymous", !.identity_err = got.err]
           /\ env' = IF got.err = "none" THEN got.envelope ELSE env
    /\ UNCHANGED <<clock, aged, senv, sealed, altered, wire, opened>>
    /\ UNCHANGED <<relayVars, hostVars>>

AnonymousStep(ok) ==
    /\ rcv.pc = "anonymous"
    /\ LET got == wormhole_receive(Transport(ok), clock)
       IN  /\ rcv' = [rcv EXCEPT !.pc = "done", !.anonymous = TRUE,
                                 !.result = IF got.err = "none" THEN "ok" ELSE got.err]
           /\ env' = IF got.err = "none" THEN got.envelope ELSE env
    /\ UNCHANGED <<clock, aged, senv, sealed, altered, wire, opened>>
    /\ UNCHANGED <<relayVars, hostVars>>

NextReceive ==
    \/ ClockAdvance
    \/ \E c \in Contents, R \in SUBSET Ids, s \in Ids : IdentitySend(c, R, s)
    \/ \E data \in EnvelopeTexts : WormholeSend(data)
    \/ \E f \in Fields : \E v \in OtherValues(f) : Interfere(f, v)
    \/ \E r \in Ids, initialized \in BOOLEAN : ReceiveStart(r, initialized)
    \/ \E ok \in BOOLEAN : IdentityStep(ok)
    \/ \E ok \in BOOLEAN : AnonymousStep(ok)

SpecReceive == Init /\ [][NextReceive]_vars

(***************************************************************************)
(* Names and channel ids (src/keys/store.rs, src/transfer/relay.rs).       *)
(* The characters of the model: NUL, TAB, space, '-', '.', '/', '7', 'Z',  *)
(* '\', 'a', NO-BREAK SPACE (U+00A0) and e-acute (U+00E9).                 *)
(***************************************************************************)
Chars == {0, 9, 32, 45, 46, 47, 55, 90, 92, 97, 160, 233}

RECURSIVE TextsOfLen(_)
TextsOfLen(n) ==
    IF n = 0 THEN {<<>>}
    ELSE {Append(t, c) : t \in TextsOfLen(n - 1), c \in Chars}

Texts == UNION {TextsOfLen(n) : n \in 0..MaxTextLen}

\* char::is_ascii_control: U+0000..U+001F and U+007F
is_ascii_control(c) == c <= 31 \/ c = 127

\* char::is_ascii_alphanumeric: 0-9, A-Z, a-z
is_ascii_alphanumeric(c) ==
    \/ c \in 48..57
    \/ c \in 65..90
    \/ c \in 97..122

\* str::contains(char)
contains_char(t, c) == \E i \in 1..Len(t) : t[i] = c

\* str::contains(&str)
contains(t, pat) ==
    \E i \in 1..(Len(t) - Len(pat) + 1) : SubSeq(t, i, i + Len(pat) - 1) = pat

\* str::starts_with(char)
starts_with(t, c) == Len(t) > 0 /\ t[1] = c

\* identity.chars().any(|c| c.is_ascii_control() || c == ' ')
ControlOrSpace(t) == \E i \in 1..Len(t) : is_ascii_control(t[i]) \/ t[i] = 32

\* keys::store::validate_identity_name: "ok", or the error of the first check
\* that fails.
validate_identity_name(identity) ==
    IF identity = <<>> THEN "identity name cannot be empty"
    ELSE IF contains_char(identity, 47) \/ contains_char(identity, 92)
    THEN "contains path separators"
    ELSE IF contains(identity, <<46, 46>>) THEN "contains '..'"
    ELSE IF contains_char(identity, 0) THEN "contains null bytes"
    ELSE IF starts_with(identity, 46) THEN "cannot start with a dot"
    ELSE IF ControlOrSpace(identity) THEN "contains whitespace or control characters"
    ELSE "ok"

\* code.chars().all(|c| c.is_ascii_alphanumeric() || c == '-')
AllowedCode(code) ==
    \A i \in 1..Len(code) : is_ascii_alphanumeric(code[i]) \/ code[i] = 45

\* What connecting and exchanging with the relay can come to.
RelayOutcomes == {"ok", "failed to connect to enseal relay", "timed out"}

\* transfer::relay::send and receive: the code is checked first; only then is
\* the connection opened (send_inner, receive_inner), under the timeout.
relay_call(code, outcome) ==
    IF ~AllowedCode(code)
    THEN [err |-> "invalid channel code", connected |-> FALSE]
    ELSE [err |-> outcome,
          connected |-> outcome # "failed to connect to enseal relay"]

ValidateIdentityName ==
    /\ cmd = NoCmd
    /\ cmd' = [op |-> "validate_identity_name", name |-> input,
               result |-> validate_identity_name(input)]
    /\ UNCHANGED <<store, input, fs>>
    /\ UNCHANGED <<relayVars, cryptoVars>>

\* transfer::relay::push (send) and listen (receive)
RelayCall(op, outcome) ==
    /\ cmd = NoCmd
    /\ LET got == relay_call(input, outcome)
       IN  cmd' = [op |-> op, channel_id |-> input, result |-> got.err,
                   connected |-> got.connected]
    /\ UNCHANGED <<store, input, fs>>
    /\ UNCHANGED <<relayVars, cryptoVars>>

InitNames ==
    /\ RelayIdle
    /\ clock = 0
    /\ CryptoIdle
    /\ store = NoStore
    /\ input \in Texts
    /\ cmd = NoCmd
    /\ fs = [p \in Paths |-> NoFile]

NextNames ==
    \/ ValidateIdentityName
    \/ \E op \in {"push", "listen"}, outcome \in RelayOutcomes : RelayCall(op, outcome)

SpecNames == InitNames /\ [][NextNames]_vars

(***************************************************************************)
(* Files (std::fs on POSIX).  A mode is the set of its permission bits;    *)
(* the umask of the process is one of the two usual ones.                  *)
(***************************************************************************)
Mode0600 == {"ur", "uw"}

Mode0644 == {"ur", "uw", "gr", "or"}

Mode0666 == {"ur", "uw", "gr", "gw", "or", "ow"}

Umasks == {{"gw", "ow"}, {"gr", "gw", "or", "ow"}}

\* A file that was there before the command ran.
OldFiles == {[exists |-> TRUE, mode |-> m, content |-> "old"] : m \in {Mode0600, Mode0644}}

\* OpenOptions::new().write(true).create(true).truncate(true).mode(m).open(path):
\* the mode is given to a file that is created, an existing file keeps its own.
open_truncate(f, m, umask) ==
    IF f.exists
    THEN [f EXCEPT !.content = "empty"]
    ELSE [exists |-> TRUE, mode |-> m \ umask, content |-> "empty"]

\* file.write_all(content)
write_all(f, content) == [f EXCEPT !.content = content]

\* std::fs::set_permissions(path, m)
set_permissions(f, m) == [f EXCEPT !.mode = m]

\* std::fs::write(path, content): File::create (mode 0666 less the umask for a
\* new file, truncation for an existing one) and write_all.
fs_write(f, content, umask) == write_all(open_truncate(f, Mode0666, umask), content)

\* cli::encrypt::write_secret_file, cli::decrypt::write_secret_file and the
\* write of transfer::filedrop::write
write_secret_file(f, content, umask) ==
    write_all(open_truncate(f, Mode0600, umask), content)

\* KeyStore::is_initialized
is_initialized(files) == \A p \in OwnKeyPaths : files[p].exists

\* A host after `enseal keys init`.
OwnKeysPresent(files) ==
    /\ \A p \in PrivateKeyPaths : files[p] = [exists |-> TRUE, mode |-> Mode0600, content |-> "key"]
    /\ \A p \in OwnKeyPaths \ PrivateKeyPaths :
          files[p] = [exists |-> TRUE, mode |-> Mode0644, content |-> "public key"]

(***************************************************************************)
(* The key store (src/keys/alias.rs, group.rs, identity.rs, mod.rs).       *)
(***************************************************************************)
\* The key pair of the host itself, and the key in the bundle of each name.
Own == NumIds

KeyOf(name) == IF name = <<98>> THEN 1 ELSE 2

\* alias::validate_name and group::validate_name
validate_name(name) ==
    /\ name # <<>>
    /\ \A i \in 1..Len(name) :
          is_ascii_alphanumeric(name[i]) \/ name[i] = 95 \/ name[i] = 45

\* An alias table in which nothing is ever found.
alias_resolve_nothing(st, name) == NoName

\* alias::resolve: the identity the alias stands for, or None.
alias_resolve(st, name) ==
    IF name \in DOMAIN st.aliases THEN st.aliases[name] ELSE NoName

\* group::get_members: the group's entry, or None.
get_members(st, name) ==
    IF name \in DOMAIN st.groups THEN st.groups[name] ELSE NoGroup

\* store.trusted_key_path(name)?.exists()
trusted_key_exists(st, name) == name \in st.trusted

\* keys::resolve_to_identities
resolve_to_identities(st, name) ==
    LET Fail(e) == [err |-> e, identities |-> <<>>]
        group == get_members(st, name)
    IN  IF validate_identity_name(name) # "ok" THEN Fail(validate_identity_name(name))
        ELSE IF alias_resolve(st, name) # NoName
        THEN [err |-> "ok", identities |-> <<alias_resolve(st, name)>>]
        ELSE IF group.exists
        THEN IF group.members = <<>> THEN Fail("group has no members")
             ELSE [err |-> "ok", identities |-> group.members]
        ELSE IF trusted_key_exists(st, name)
        THEN [err |-> "ok", identities |-> <<name>>]
        ELSE Fail("unknown recipient")

\* enseal keys alias <name> <identity> (alias::set)
AliasSet(alias, identity) ==
    /\ cmd = NoCmd
    /\ validate_name(alias)
    /\ validate_identity_name(identity) = "ok"
    /\ store' = [store EXCEPT !.aliases[alias] = identity]
    /\ UNCHANGED <<input, cmd, fs>>
    /\ UNCHANGED <<relayVars, cryptoVars>>

\* enseal keys group create <name> (group::create)
GroupCreate(name) ==
    /\ cmd = NoCmd
    /\ validate_name(name)
    /\ ~store.groups[name].exists
    /\ store' = [store EXCEPT !.groups[name] = [exists |-> TRUE, members |-> <<>>]]
    /\ UNCHANGED <<input, cmd, fs>>
    /\ UNCHANGED <<relayVars, cryptoVars>>

\* enseal keys group add <group> <identity> (group::add_member)
GroupAddMember(group, identity) ==
    /\ cmd = NoCmd
    /\ validate_identity_name(identity) = "ok"
    /\ store.groups[group].exists
    /\ identity \notin Range(store.groups[group].members)
    /\ store' = [store EXCEPT !.groups[group].members = Append(@, identity)]
    /\ UNCHANGED <<input, cmd, fs>>
    /\ UNCHANGED <<relayVars, cryptoVars>>

\* enseal keys import <name>.pub (cmd_import), the key confirmed
KeysImport(name) ==
    /\ cmd = NoCmd
    /\ validate_identity_name(name) = "ok"
    /\ store' = [store EXCEPT !.trusted = @ \cup {name}]
    /\ UNCHANGED <<input, cmd, fs>>
    /\ UNCHANGED <<relayVars, cryptoVars>>

\* A call of keys::resolve_to_identities
Resolve(name) ==
    /\ cmd = NoCmd
    /\ LET got == resolve_to_identities(store, name)
       IN  cmd' = [op |-> "resolve", name |-> name, result |-> got.err,
                   identities |-> got.identities]
    /\ UNCHANGED <<store, input, fs>>
    /\ UNCHANGED <<relayVars, cryptoVars>>

(***************************************************************************)
(* enseal share --to <name> (src/cli/share.rs, send_identity_mode) by its  *)
(* three routes: --output (file drop), --relay (push), or the rendezvous   *)
(* mailbox.                                                                *)
(***************************************************************************)
Routes == {"filedrop", "relay", "rendezvous"}

\* What the names of a command line can be: the names of the store, an
\* unknown name "d", and "..".
GivenNames == Names \cup {<<100>>, <<46, 46>>}

\* TrustedKey::load for every identity: the first that has no key file fails.
MissingKeys(st, identities) ==
    {i \in 1..Len(identities) : ~trusted_key_exists(st, identities[i])}

\* trusted_keys.iter().map(|k| &k.age_recipient)
age_recipients(identities) == {KeyOf(identities[i]) : i \in 1..Len(identities)}

send_identity_mode(content, recipient_name, route, umask) ==
    LET got == resolve_to_identities(store, recipient_name)
        sender == Own
        recipients == age_recipients(got.identities)
        inner_bytes == Envelope_to_bytes(Envelope_seal(content, clock))
        signed == seal(inner_bytes, recipients, sender)
        Failed(e) ==
            /\ cmd' = [op |-> "share", to |-> recipient_name, route |-> route,
                       result |-> e, before |-> fs["out"]]
            /\ UNCHANGED <<senv, sealed, wire, fs>>
    IN  IF got.err # "ok" THEN Failed(got.err)
        ELSE IF ~is_initialized(fs) THEN Failed("no identity found")
        ELSE IF MissingKeys(store, got.identities) # {} THEN Failed("no public key found")
        ELSE /\ senv' = signed
             /\ sealed' = [sender |-> sender, recipients |-> recipients,
                           inner_bytes |-> inner_bytes, via |-> route]
             /\ wire' = to_bytes(signed)
             /\ fs' = IF route = "filedrop"
                      THEN [fs EXCEPT !["out"] = write_secret_file(@, "wire bytes", umask)]
                      ELSE fs
             /\ cmd' = [op |-> "share", to |-> recipient_name, route |-> route,
                        result |-> "ok", before |-> fs["out"]]

Share(content, recipient_name, route, umask) ==
    /\ cmd = NoCmd
    /\ send_identity_mode(content, recipient_name, route, umask)
    /\ UNCHANGED <<clock, env, aged, altered, opened, rcv>>
    /\ UNCHANGED <<store, input>>
    /\ UNCHANGED relayVars

\* The sender, or a recipient, opens what was sent.
OpenSent(own_identity) ==
    /\ cmd.op = "share"
    /\ cmd.result = "ok"
    /\ ~opened.called
    /\ LET got == open(senv, own_identity, NoSender)
       IN  opened' = [called |-> TRUE, own |-> own_identity,
                      expected |-> NoSender, err |-> got.err,
                      plaintext |-> got.plaintext, steps |-> got.steps]
    /\ UNCHANGED <<clock, env, aged, senv, sealed, altered, wire, rcv>>
    /\ UNCHANGED <<relayVars, hostVars>>

InitShare ==
    /\ RelayIdle
    /\ clock = 0
    /\ CryptoIdle
    /\ store = NoStore
    /\ input = NoName
    /\ cmd = NoCmd
    /\ fs \in [Paths -> OldFiles \cup {NoFile} \cup
                        {[exists |-> TRUE, mode |-> Mode0600, content |-> "key"],
                         [exists |-> TRUE, mode |-> Mode0644, content |-> "public key"]}]
    /\ OwnKeysPresent(fs)
    /\ fs["out"] \in OldFiles \cup {NoFile}

NextShare ==
    \/ \E a \in Names, i \in Names : AliasSet(a, i)
    \/ \E g \in Names : GroupCreate(g)
    \/ \E g \in Names, i \in Names : GroupAddMember(g, i)
    \/ \E n \in Names : KeysImport(n)
    \/ \E n \in GivenNames : Resolve(n)
    \/ \E c \in Contents, n \in GivenNames, r \in Routes, u \in Umasks : Share(c, n, r, u)
    \/ \E r \in Ids : OpenSent(r)

SpecShare == InitShare /\ [][NextShare]_vars

(***************************************************************************)
(* enseal keys init (src/cli/keys.rs cmd_init, EnsealIdentity::save,       *)
(* KeyStore::write_private), one system call at a time.  Other users of    *)
(* the host can look at the files between any two calls.                   *)
(***************************************************************************)
\* The files in the order save writes them.
SaveOrder == <<"self.age.key", "self.age.pub", "self.sign.key", "self.sign.pub">>

\* What save writes into each file.
KeyText(p) == IF p \in PrivateKeyPaths THEN "key" ELSE "public key"

\* cmd_init: nothing is written over a complete set of keys.
KeysInit(umask) ==
    /\ cmd = NoCmd
    /\ cmd' = IF is_initialized(fs)
              THEN [op |-> "keys init", at |-> 0, step |-> "done", umask |-> umask,
                    result |-> "keys already initialized"]
              ELSE [op |-> "keys init", at |-> 1, step |-> "open", umask |-> umask,
                    result |-> "none"]
    /\ UNCHANGED <<store, input, fs>>
    /\ UNCHANGED <<relayVars, cryptoVars>>

\* The next file of save, or its end.
AfterFile(c) ==
    IF c.at = Len(SaveOrder)
    THEN [c EXCEPT !.at = 0, !.step = "done", !.result = "ok"]
    ELSE [c EXCEPT !.at = c.at + 1, !.step = "open"]

\* write_private: OpenOptions .. mode(0o600).open(path)
OpenPrivate ==
    /\ cmd.op = "keys init" /\ cmd.step = "open"
    /\ SaveOrder[cmd.at] \in PrivateKeyPaths
    /\ fs' = [fs EXCEPT ![SaveOrder[cmd.at]] = open_truncate(@, Mode0600, cmd.umask)]
    /\ cmd' = [cmd EXCEPT !.step = "write"]
    /\ UNCHANGED <<store, input>>
    /\ UNCHANGED <<relayVars, cryptoVars>>

\* write_private: file.write_all(content.as_bytes())
WritePrivate ==
    /\ cmd.op = "keys init" /\ cmd.step = "write"
    /\ fs' = [fs EXCEPT ![SaveOrder[cmd.at]] = write_all(@, KeyText(SaveOrder[cmd.at]))]
    /\ cmd' = [cmd EXCEPT !.step = "set_permissions"]
    /\ UNCHANGED <<store, input>>
    /\ UNCHANGED <<relayVars, cryptoVars>>

\* write_private: std::fs::set_permissions(path, 0o600)
SetPermissionsPrivate ==
    /\ cmd.op = "keys init" /\ cmd.step = "set_permissions"
    /\ fs' = [fs EXCEPT ![SaveOrder[cmd.at]] = set_permissions(@, Mode0600)]
    /\ cmd' = AfterFile(cmd)
    /\ UNCHANGED <<store, input>>
    /\ UNCHANGED <<relayVars, cryptoVars>>

\* save: std::fs::write of a public key file
WritePublic ==
    /\ cmd.op = "keys init" /\ cmd.step = "open"
    /\ SaveOrder[cmd.at] \notin PrivateKeyPaths
    /\ fs' = [fs EXCEPT ![SaveOrder[cmd.at]] =
                  fs_write(@, KeyText(SaveOrder[cmd.at]), cmd.umask)]
    /\ cmd' = AfterFile(cmd)
    /\ UNCHANGED <<store, input>>
    /\ UNCHANGED <<relayVars, cryptoVars>>

\* Before the command, each key file is absent or was left there by someone.
InitKeys ==
    /\ RelayIdle
    /\ clock = 0
    /\ CryptoIdle
    /\ store = NoStore
    /\ input = NoName
    /\ cmd = NoCmd
    /\ fs \in [Paths -> OldFiles \cup {NoFile}]
    /\ fs["out"] = NoFile

NextKeys ==
    \/ \E u \in Umasks : KeysInit(u)
    \/ OpenPrivate
    \/ WritePrivate
    \/ SetPermissionsPrivate
    \/ WritePublic

SpecKeys == InitKeys /\ [][NextKeys]_vars

(***************************************************************************)
(* The commands that write a secret, or its ciphertext, to a destination:  *)
(* share --to .. --output (file drop), encrypt, decrypt, receive.          *)
(***************************************************************************)
\* check_overwrite of cli/encrypt.rs and cli/decrypt.rs
check_overwrite(f, force, terminal, confirm) ==
    IF ~f.exists THEN "ok"
    ELSE IF force THEN "ok"
    ELSE IF ~terminal THEN "already exists"
    ELSE IF ~confirm THEN "aborted"
    ELSE "ok"

\* enseal encrypt / decrypt of a whole file: check_overwrite, write_secret_file
EncryptOrDecrypt(op, force, terminal, confirm, umask) ==
    /\ cmd = NoCmd
    /\ LET ask == check_overwrite(fs["out"], force, terminal, confirm)
           text == IF op = "encrypt" THEN "ciphertext" ELSE "plaintext"
       IN  /\ cmd' = [op |-> op, result |-> ask, before |-> fs["out"],
                      force |-> force, terminal |-> terminal, confirm |-> confirm]
           /\ fs' = IF ask = "ok"
                    THEN [fs EXCEPT !["out"] = write_secret_file(@, text, umask)]
                    ELSE fs
    /\ UNCHANGED <<store, input>>
    /\ UNCHANGED <<relayVars, cryptoVars>>

\* enseal receive: output_envelope writes the payload with std::fs::write,
\* unless --no-write prints it.  The command has no force option.
ReceiveOutput(no_write, terminal, umask) ==
    /\ cmd = NoCmd
    /\ cmd' = [op |-> "receive", result |-> "ok", before |-> fs["out"],
               force |-> FALSE, terminal |-> terminal, confirm |-> FALSE,
               no_write |-> no_write]
    /\ fs' = IF no_write THEN fs
             ELSE [fs EXCEPT !["out"] = fs_write(@, "payload", umask)]
    /\ UNCHANGED <<store, input>>
    /\ UNCHANGED <<relayVars, cryptoVars>>

NextFiles ==
    \/ \E n \in Names : KeysImport(n)
    \/ \E c \in Contents, n \in GivenNames, u \in Umasks : Share(c, n, "filedrop", u)
    \/ \E op \in {"encrypt", "decrypt"}, force \in BOOLEAN, terminal \in BOOLEAN,
          confirm \in BOOLEAN, u \in Umasks : EncryptOrDecrypt(op, force, terminal, confirm, u)
    \/ \E no_write \in BOOLEAN, terminal \in BOOLEAN, u \in Umasks :
          ReceiveOutput(no_write, terminal, u)

SpecFiles == InitShare /\ [][NextFiles]_vars

(***************************************************************************)
(* transfer/relay.rs: push and listen against the relay.  send and receive *)
(* run send_inner / receive_inner (connect, the data frame of a push, the  *)
(* read loop) under tokio::time::timeout(RELAY_TIMEOUT, ..).  cmd holds    *)
(* the call: its operation, the connection it uses, the moment it began    *)
(* and, once it has returned, its result.                                  *)
(***************************************************************************)
RelayOps == {"push", "listen"}

\* The call's connection and one other.
Waiters == 1..NumWaiters

Calling == cmd.op \in RelayOps /\ cmd.pc = "run"

Returned == cmd.op \in RelayOps /\ cmd.pc = "returned"

\* Time passes, on the relay host and on the caller's, in steps of half the
\* timeout.
WaitTickSecs == RELAY_TIMEOUT \div 2

Elapse ==
    /\ now < MaxWaitTicks * WaitTickSecs
    /\ now' = now + WaitTickSecs
    /\ UNCHANGED <<connection_log, channels, cstate, cip, ccode,
                   sent, wsIn, recvd, hpc, fwdOut, fwdIn, peer, toFirst,
                   fromFirst, upAt>>
    /\ UNCHANGED <<cryptoVars, hostVars>>

\* send / receive: the call begins and its timer starts.  Connection k is
\* the next one the relay will see.
StartCall(op, k) ==
    /\ cmd = NoCmd
    /\ now + RELAY_TIMEOUT <= MaxWaitTicks * WaitTickSecs
    /\ cstate[k] = "idle"
    /\ \A j \in Waiters : j < k => cstate[j] # "idle"
    /\ cmd' = [op |-> op, pc |-> "run", client |-> k, started |-> now,
               result |-> "none"]
    /\ UNCHANGED <<store, input, fs>>
    /\ UNCHANGED <<relayVars, cryptoVars>>

\* connect_async_with_config: the upgrade request reaches the relay.
connect_async(ip, code) ==
    /\ Calling
    /\ ws_handler(cmd.client, ip, code)

\* send_inner: ws.send(Message::Binary(data)), once, before the read loop.
send_data(len) ==
    /\ Calling
    /\ cmd.op = "push"
    /\ sent[cmd.client] = <<>>
    /\ ClientSend(cmd.client, "binary", len, MaxFrames + 1)

\* The frames the read loops act on: the others fall to `_ => continue`.
Answers(q) == SelectSeq(q, LAMBDA m : m.kind \in {"binary", "close"})

\* ws.next() yields None or Err: the relay has let go of the connection.
StreamEnded(k) == hpc[k] # "none" /\ ~SocketHeld(k)

\* A send_inner that takes only a Binary frame for success.
send_inner_needs_ack(k) ==
    IF \E m \in Range(recvd[k]) : m.kind = "binary"
    THEN {"ok"}
    ELSE {"relay closed connection before acknowledgement"}

\* What send_inner returns once its read loop has something to act on
\* (a failed ws.send when the relay is already gone).
send_inner(k) ==
    IF sent[k] = <<>> THEN {"failed to send data through relay", "ok"} ELSE {"ok"}

\* What receive_inner returns once its read loop has something to act on.
receive_inner(k) ==
    IF Answers(recvd[k]) # <<>>
    THEN IF Head(Answers(recvd[k])).kind = "binary"
         THEN {"ok"}
         ELSE {"relay closed connection before data was received"}
    ELSE {"relay connection error",
          "relay connection ended without receiving data"}

\* The connection is dropped: the relay's read of the socket ends, as it
\* does on a Close frame.
Dropped(k, frames) ==
    /\ cstate' = [cstate EXCEPT ![k] = IF @ = "open" THEN "closed" ELSE @]
    /\ LET out == IF cstate[k] = "open"
                  THEN frames \o <<Frame(k, Len(sent[k]) + Len(frames) + 1, "close", 0)>>
                  ELSE <<>>
       IN  /\ sent' = [sent EXCEPT ![k] = @ \o out]
           /\ wsIn' = [wsIn EXCEPT ![k] = IF SocketHeld(k) THEN @ \o out ELSE @]
    /\ UNCHANGED <<now, connection_log, channels, cip, ccode,
                   recvd, hpc, fwdOut, fwdIn, peer, toFirst, fromFirst, upAt>>

\* The inner future completes: the handshake was refused, or the read loop
\* met a Binary or Close frame or the end of the stream.  A listen that got
\* its data sends "ack", and a push whose connection the relay has let go
\* of may still have written its data frame to it; either closes the socket
\* before returning.
ReturnFromRelay ==
    /\ Calling
    /\ LET k == cmd.client
       IN  IF cstate[k] = "rejected"
           THEN /\ cmd' = [cmd EXCEPT !.pc = "returned",
                                      !.result = "failed to connect to enseal relay"]
                /\ Dropped(k, <<>>)
           ELSE /\ cstate[k] = "open"
                /\ \/ StreamEnded(k)
                   \/ /\ Answers(recvd[k]) # <<>>
                      /\ cmd.op = "push" => sent[k] # <<>>
                /\ \E r \in (IF cmd.op = "push" THEN send_inner(k) ELSE receive_inner(k)) :
                      /\ cmd' = [cmd EXCEPT !.pc = "returned", !.result = r]
                      /\ Dropped(k, IF r = "ok" /\ (cmd.op = "listen" \/ sent[k] = <<>>)
                                    THEN <<Frame(k, Len(sent[k]) + 1, "binary", 1)>>
                                    ELSE <<>>)
    /\ UNCHANGED <<store, input, fs>>
    /\ UNCHANGED cryptoVars

\* A timer that never fires.
ElapsedNever(started, t) == FALSE

\* tokio::time::timeout: the deadline has passed.
Elapsed(started, t) == t - started >= RELAY_TIMEOUT

\* The timeout fires: the inner future is dropped, and its connection with
\* it, and the call returns the timeout error.
RelayTimeout ==
    /\ Calling
    /\ Elapsed(cmd.started, now)
    /\ cmd' = [cmd EXCEPT !.pc = "returned", !.result = "timed out"]
    /\ Dropped(cmd.client, <<>>)
    /\ UNCHANGED <<store, input, fs>>
    /\ UNCHANGED cryptoVars

\* Any other connection: it reaches the relay on some code, sends nothing,
\* and leaves when it likes.
IsOther(k) == ~(cmd.op \in RelayOps /\ cmd.client = k)

OtherConnects(k, ip, code) == IsOther(k) /\ ws_handler(k, ip, code)

OtherLeaves(k) == IsOther(k) /\ ClientClose(k)

NextTimeout ==
    \/ Elapse
    \/ \E op \in RelayOps, k \in Waiters : StartCall(op, k)
    \/ \E ip \in IPs, code \in Codes : connect_async(ip, code)
    \/ \E len \in {max_payload_bytes, max_payload_bytes + 1} : send_data(len)
    \/ ReturnFromRelay
    \/ RelayTimeout
    \/ \E k \in Waiters, ip \in IPs, code \in Codes : OtherConnects(k, ip, code)
    \/ \E k \in Waiters : OtherLeaves(k)
    \/ \E k \in Waiters : RelayStep(k)

\* Time passes, timers fire, and the relay's runtime runs every task that
\* can take a step.
FairTimeout ==
    /\ WF_vars(Elapse)
    /\ WF_vars(RelayTimeout)
    /\ \A k \in Waiters :
          /\ WF_vars(CleanExpired(k))
          /\ WF_vars(JoinChannel(k))
          /\ WF_vars(forward_outgoing(k))
          /\ WF_vars(forward_second(k))
          /\ WF_vars(forward_incoming(k))
          /\ WF_vars(forward_first(k))
          /\ WF_vars(FirstCleanup(k))

SpecTimeout == Init /\ [][NextTimeout]_vars /\ FairTimeout

(***************************************************************************)
(* SpecPush: a push or listen next to a peer that may also speak: any      *)
(* other connection may send a binary frame, as the listen of the          *)
(* recipient does with its "ack" and as another push on the channel does   *)
(* with its data.                                                          *)
(***************************************************************************)
OtherSends(k) ==
    /\ IsOther(k)
    /\ ClientSend(k, "binary", max_payload_bytes, MaxFrames + 1)

NextPush ==
    \/ NextTimeout
    \/ \E k \in Waiters : OtherSends(k)

SpecPush == Init /\ [][NextPush]_vars

(***************************************************************************)
(* The receive paths: transfer::wormhole::receive (anonymous rendezvous),  *)
(* transfer::identity::receive (identity rendezvous), filedrop::read (file *)
(* drop), and in cli/inject.rs listen_mode (relay listen) and              *)
(* receive_envelope (a code given to inject).  Each hands an Envelope to   *)
(* its caller, which prints it, writes it or injects it, or fails.         *)
(***************************************************************************)
\* Envelope::from_bytes(..)? with no check_age after it.
CheckedWithinSkipsAge(data, max_age_secs, t) ==
    LET got == Envelope_from_bytes(data)
    IN  IF got.err # "none" THEN ReceiveFailed(got.err)
        ELSE [err |-> "none", envelope |-> got.envelope]

\* Envelope::from_bytes(..)? and then envelope.check_age(max_age_secs)?
CheckedWithin(data, max_age_secs, t) ==
    LET got == Envelope_from_bytes(data)
        age == check_age(got.envelope, max_age_secs, t)
    IN  IF got.err # "none" THEN ReceiveFailed(got.err)
        ELSE IF age # "ok" THEN ReceiveFailed(age)
        ELSE [err |-> "none", envelope |-> got.envelope]

\* SignedEnvelope::from_bytes, open, and the checked inner Envelope.
OpenedAndChecked(data, own_identity, expected_sender, max_age_secs, t) ==
    LET signed == from_bytes(data)
        inner == open(signed.envelope, own_identity, expected_sender)
    IN  IF signed.err # "none" THEN ReceiveFailed(signed.err)
        ELSE IF inner.err # "none" THEN ReceiveFailed(inner.err)
        ELSE CheckedWithin(inner.plaintext, max_age_secs, t)

\* keys::find_trusted_sender: the trusted key that is the envelope's signer,
\* if the store knows it.
find_trusted_sender(data, known) ==
    LET signed == from_bytes(data)
    IN  IF signed.err = "none" /\ known /\ Decode(signed.envelope.sender_sign_pubkey).ok
        THEN Decode(signed.envelope.sender_sign_pubkey).bytes.key
        ELSE NoSender

\* transfer::filedrop::read and read_from_bytes
filedrop_read(data, own_identity, expected_sender, t) ==
    IF data.len > MaxEnvelopeBytes THEN ReceiveFailed("file too large")
    ELSE OpenedAndChecked(data, own_identity, expected_sender, FileDropMaxAgeSecs, t)

\* cli/inject.rs: listen_mode after transfer::relay::listen has the bytes.
listen_mode(data, own_identity, known, t) ==
    OpenedAndChecked(data, own_identity, find_trusted_sender(data, known),
                     ReceiveMaxAgeSecs, t)

\* cli/inject.rs: receive_envelope for a code; signed bytes are opened when
\* keys are initialised, anything else is read as a plain Envelope.
receive_envelope(data, own_identity, initialized, known, t) ==
    IF data.len > MaxWormholePayload THEN ReceiveFailed("too large")
    ELSE IF initialized /\ from_bytes(data).err = "none"
    THEN OpenedAndChecked(data, own_identity, find_trusted_sender(data, known),
                          ReceiveMaxAgeSecs, t)
    ELSE CheckedWithin(data, ReceiveMaxAgeSecs, t)

ReceivePaths == {"wormhole", "identity", "filedrop", "listen", "inject"}

ReceiveOn(path, data, own_identity, initialized, known, t) ==
    IF path = "wormhole" THEN wormhole_receive([ok |-> TRUE, data |-> data], t)
    ELSE IF path = "identity"
    THEN identity_receive([ok |-> TRUE, data |-> data], own_identity, NoSender, t)
    ELSE IF path = "filedrop"
    THEN filedrop_read(data, own_identity, find_trusted_sender(data, known), t)
    ELSE IF path = "listen" THEN listen_mode(data, own_identity, known, t)
    ELSE receive_envelope(data, own_identity, initialized, known, t)

\* The instants at which the model looks: the start, and the last second
\* within and the first second beyond each bound, counted from the start.
Instants ==
    {1, 1 + ReceiveMaxAgeSecs, 2 + ReceiveMaxAgeSecs,
     1 + FileDropMaxAgeSecs, 2 + FileDropMaxAgeSecs}

\* Time passes between the sending and the receiving.
Wait(t) ==
    /\ t > clock
    /\ clock' = t
    /\ UNCHANGED <<env, aged, senv, sealed, altered, wire, opened, rcv>>
    /\ UNCHANGED <<relayVars, hostVars>>

\* A receive on one of the paths, of the bytes that were sent or dropped.
Receive(path, own_identity, initialized, known) ==
    /\ cmd = NoCmd
    /\ wire # NoBytes
    /\ LET got == ReceiveOn(path, wire, own_identity, initialized, known, clock)
       IN  /\ cmd' = [op |-> "receive", path |-> path, at |-> clock,
                      err |-> got.err, envelope |-> got.envelope]
           /\ env' = IF got.err = "none" THEN got.envelope ELSE env
    /\ UNCHANGED <<store, input, fs>>
    /\ UNCHANGED <<clock, aged, senv, sealed, altered, wire, opened, rcv>>
    /\ UNCHANGED relayVars

InitPaths ==
    /\ RelayIdle
    /\ clock = 1
    /\ CryptoIdle
    /\ HostIdle

NextPaths ==
    \/ \E t \in Instants : Wait(t)
    \/ \E c \in Contents, r \in Ids, s \in Ids : IdentitySend(c, {r}, s)
    \/ \E data \in EnvelopeTexts : WormholeSend(data)
    \/ \E path \in ReceivePaths, own \in Ids, initialized \in BOOLEAN, known \in BOOLEAN :
          Receive(path, own, initialized, known)

SpecPaths == InitPaths /\ [][NextPaths]_vars

(***************************************************************************)
(* The at-rest codec, per variable (src/crypto/at_rest.rs) and the text of *)
(* an EnvFile (src/env/mod.rs).  A String is a sequence of characters; a   *)
(* character is Lit(c) for the code point c.  The base64 text of an age    *)
(* ciphertext starts with the encoding of the age header label and goes on *)
(* with text that the file key and the payload determine: Rest(ciphertext) *)
(* stands for that run of base64 characters.                               *)
(***************************************************************************)
Lit(c) == [c |-> c]

Rest(ciphertext) == [rest |-> ciphertext]

Str(codes) == [i \in 1..Len(codes) |-> Lit(codes[i])]

\* "ENC[age:" and "]"
PER_VAR_PREFIX == Str(<<69, 78, 67, 91, 97, 103, 101, 58>>)

PER_VAR_SUFFIX == Str(<<93>>)

\* str::starts_with and str::ends_with with a &str pattern
starts_with_str(s, p) == Len(p) <= Len(s) /\ SubSeq(s, 1, Len(p)) = p

ends_with_str(s, p) == Len(p) <= Len(s) /\ SubSeq(s, Len(s) - Len(p) + 1, Len(s)) = p

RECURSIVE Concat(_)
Concat(texts) == IF texts = <<>> THEN <<>> ELSE Head(texts) \o Concat(Tail(texts))

\* "YWdl", the base64 of "age": an age file starts "age-encryption.org/v1".
AgeLabelBase64 == Str(<<89, 87, 100, 108>>)

\* The characters of base64 STANDARD: A-Z, a-z, 0-9, '+', '/', and '='.
is_base64_char(ch) ==
    \/ "rest" \in DOMAIN ch
    \/ "c" \in DOMAIN ch /\ (is_ascii_alphanumeric(ch.c) \/ ch.c \in {43, 47, 61})

\* An age file that no identity can read.
NoCipher == age_encrypt_multi(<<>>, {})

\* base64 STANDARD.encode of an age ciphertext, and .decode
EncodeText(ciphertext) == AgeLabelBase64 \o <<Rest(ciphertext)>>

DecodeText(encoded) ==
    IF \E n \in 1..Len(encoded) : ~is_base64_char(encoded[n])
    THEN [ok |-> FALSE, bytes |-> NoCipher]
    ELSE IF /\ Len(encoded) = Len(AgeLabelBase64) + 1
            /\ starts_with_str(encoded, AgeLabelBase64)
            /\ "rest" \in DOMAIN encoded[Len(encoded)]
    THEN [ok |-> TRUE, bytes |-> encoded[Len(encoded)].rest]
    ELSE [ok |-> TRUE, bytes |-> NoCipher]

\* Entry::KeyValue, Entry::Comment and Entry::Blank
KeyValue(key, value) == [kind |-> "KeyValue", key |-> key, value |-> value]

Comment(text) == [kind |-> "Comment", text |-> text]

Blank == [kind |-> "Blank"]

IsKeyValue(entry) == entry.kind = "KeyValue"

\* EnvFile::vars
EnvFile_vars(entries) ==
    LET kvs == SelectSeq(entries, IsKeyValue)
    IN  [n \in 1..Len(kvs) |-> <<kvs[n].key, kvs[n].value>>]

\* The characters that make Display quote a value: space, '"', ''', '#', '$',
\* '\', LF, TAB, CR.
NeedsQuote(value) ==
    \/ value = <<>>
    \/ \E n \in 1..Len(value) :
          "c" \in DOMAIN value[n] /\ value[n].c \in {32, 34, 39, 35, 36, 92, 10, 9, 13}

Escaped(ch) ==
    IF "rest" \in DOMAIN ch THEN <<ch>>
    ELSE IF ch.c = 92 THEN Str(<<92, 92>>)
    ELSE IF ch.c = 34 THEN Str(<<92, 34>>)
    ELSE IF ch.c = 10 THEN Str(<<92, 110>>)
    ELSE IF ch.c = 9 THEN Str(<<92, 116>>)
    ELSE IF ch.c = 13 THEN Str(<<92, 114>>)
    ELSE <<ch>>

\* impl fmt::Display for EnvFile: one line per entry.
Line(entry) ==
    IF entry.kind = "KeyValue"
    THEN IF NeedsQuote(entry.value)
         THEN entry.key \o Str(<<61, 34>>)
              \o Concat([n \in 1..Len(entry.value) |-> Escaped(entry.value[n])])
              \o Str(<<34, 10>>)
         ELSE entry.key \o Str(<<61>>) \o entry.value \o Str(<<10>>)
    ELSE IF entry.kind = "Comment" THEN entry.text \o Str(<<10>>)
    ELSE Str(<<10>>)

to_string(entries) == Concat([n \in 1..Len(entries) |-> Line(entries[n])])

\* A value left as it is.
PerVarValuePlain(value, recipients) == value

\* format!("{}{}{}", PER_VAR_PREFIX, encoded, PER_VAR_SUFFIX) of the value's
\* age ciphertext
PerVarValue(value, recipients) ==
    PER_VAR_PREFIX \o EncodeText(age_encrypt_multi(value, recipients)) \o PER_VAR_SUFFIX

\* encrypt_per_var: age_encrypt_multi bails on an empty recipient list, at
\* the first key/value entry.
encrypt_per_var(entries, recipients) ==
    IF recipients = {} /\ \E n \in 1..Len(entries) : IsKeyValue(entries[n])
    THEN [err |-> "at least one recipient is required", env |-> <<>>]
    ELSE [err |-> "none",
          env |-> [n \in 1..Len(entries) |->
                      IF IsKeyValue(entries[n])
                      THEN KeyValue(entries[n].key,
                                    PerVarValue(entries[n].value, recipients))
                      ELSE entries[n]]]

is_encrypted_value_never(value) == FALSE

\* is_encrypted_value
is_encrypted_value(value) ==
    starts_with_str(value, PER_VAR_PREFIX) /\ ends_with_str(value, PER_VAR_SUFFIX)

\* The decrypted_value of decrypt_per_var for one value; what age_decrypt
\* returns of an age_encrypt_multi of a String is UTF-8.
DecryptedValue(value, identity) ==
    IF is_encrypted_value(value)
    THEN LET encoded == SubSeq(value, Len(PER_VAR_PREFIX) + 1,
                               Len(value) - Len(PER_VAR_SUFFIX))
             decoded == DecodeText(encoded)
             plain == age_decrypt(decoded.bytes, identity)
         IN  IF ~decoded.ok THEN [err |-> "invalid base64", value |-> <<>>]
             ELSE IF plain.err # "none"
             THEN [err |-> "failed to decrypt value", value |-> <<>>]
             ELSE [err |-> "none", value |-> plain.plaintext]
    ELSE [err |-> "none", value |-> value]

\* decrypt_per_var: the first value that fails ends it with that error.
decrypt_per_var(entries, identity) ==
    LET failed == {n \in 1..Len(entries) :
                      /\ IsKeyValue(entries[n])
                      /\ DecryptedValue(entries[n].value, identity).err # "none"}
        first == CHOOSE n \in failed : \A m \in failed : n <= m
    IN  IF failed # {}
        THEN [err |-> DecryptedValue(entries[first].value, identity).err, env |-> <<>>]
        ELSE [err |-> "none",
              env |-> [n \in 1..Len(entries) |->
                          IF IsKeyValue(entries[n])
                          THEN KeyValue(entries[n].key,
                                        DecryptedValue(entries[n].value, identity).value)
                          ELSE entries[n]]]

\* What env::parser::parse gives: the key "K"; values of 'K', 'Y' and '@';
\* the comment "#@"; blank lines.
EnvKeys == {Str(<<75>>)}

ValueChars == {75, 89, 64}

RECURSIVE ValuesOfLen(_)
ValuesOfLen(n) ==
    IF n = 0 THEN {<<>>}
    ELSE {Append(v, Lit(c)) : v \in ValuesOfLen(n - 1), c \in ValueChars}

EnvValues == UNION {ValuesOfLen(n) : n \in 0..MaxValueLen}

EnvComments == {Str(<<35, 64>>)}

EnvEntries ==
    {KeyValue(k, v) : k \in EnvKeys, v \in EnvValues}
    \cup {Comment(t) : t \in EnvComments} \cup {Blank}

EnvFiles == UNION {[1..n -> EnvEntries] : n \in 0..MaxEntries}

RecipientLists == SUBSET (1..2)

\* enseal encrypt --per-var: parse, encrypt_per_var, and the text written.
EncryptPerVar(entries, recipients) ==
    /\ cmd = NoCmd
    /\ LET got == encrypt_per_var(entries, recipients)
       IN  cmd' = [op |-> "encrypt", env |-> entries, recipients |-> recipients,
                   err |-> got.err, out |-> got.env, text |-> to_string(got.env)]
    /\ UNCHANGED <<store, input, fs>>
    /\ UNCHANGED <<relayVars, cryptoVars>>

\* enseal decrypt of what was encrypted, with the identity's age key.
DecryptPerVar(identity) ==
    /\ cmd.op = "encrypt"
    /\ cmd.err = "none"
    /\ LET got == decrypt_per_var(cmd.out, identity)
       IN  cmd' = [op |-> "decrypt", env |-> cmd.env, recipients |-> cmd.recipients,
                   enc |-> cmd.out, identity |-> identity,
                   err |-> got.err, out |-> got.env]
    /\ UNCHANGED <<store, input, fs>>
    /\ UNCHANGED <<relayVars, cryptoVars>>

NextAtRest ==
    \/ \E entries \in EnvFiles, recipients \in RecipientLists :
          EncryptPerVar(entries, recipients)
    \/ \E identity \in 1..2 : DecryptPerVar(identity)

SpecAtRest == Init /\ [][NextAtRest]_vars

(***************************************************************************)
(* Vocabulary of the properties.                                           *)
(***************************************************************************)
TooBig(m) == m.kind = "binary" /\ m.len > max_payload_bytes

DataOnly(q) == SelectSeq(q, LAMBDA m : m.kind = "binary")

FromSrc(q, a) == SelectSeq(q, LAMBDA m : m.src = a)

IsPrefix(p, q) == Len(p) <= Len(q) /\ SubSeq(q, 1, Len(p)) = p

Paired(a, b) == peer[a] = b \/ peer[b] = a

\* The position of the first frame of a at which its forwarding loop stops.
FirstStop(a) ==
    LET stops == {i \in 1..Len(sent[a]) : sent[a][i].kind = "close" \/ TooBig(sent[a][i])}
    IN  IF stops = {} THEN Len(sent[a]) + 1
        ELSE CHOOSE i \in stops : \A j \in stops : i <= j

\* What a has sent ahead of its first Close or oversized frame.
Forwardable(a) == SubSeq(sent[a], 1, FirstStop(a) - 1)

\* Frames of a on their way to its peer b.
QueueTo(a, b) == IF peer[b] = a THEN fromFirst[a] ELSE FromSrc(toFirst[b], a)

UnreadOf(a) == SelectSeq(wsIn[a], LAMBDA m : m.seq < FirstStop(a))

SessionEnded(k) == HandlerReturned(k) /\ fwdOut[k] # "run" /\ fwdIn[k] # "run"

AllDelivered(a, b) == DataOnly(FromSrc(recvd[b], a)) = DataOnly(Forwardable(a))

(***************************************************************************)
(* C1  Two clients paired on a code: the binary frames one has received    *)
(* from the other are, at every moment, the first of those the other sent  *)
(* within the limit, in the order sent, each once; while the receiver is   *)
(* open none is lost (received, queued and unread frames together are what *)
(* was sent); every such frame is eventually received unless the receiver  *)
(* closes; and once both clients have closed, both sessions end.           *)
(***************************************************************************)
\* C1, at every moment: in order, once each, nothing invented, nothing lost.
C1_InOrderOnce ==
    \A a \in Pair, b \in Pair :
        Paired(a, b) =>
            /\ IsPrefix(DataOnly(FromSrc(recvd[b], a)), DataOnly(Forwardable(a)))
            /\ \A m \in Range(recvd[b]) : m.src \in {0, a}
            /\ cstate[b] = "open" =>
                 DataOnly(FromSrc(recvd[b], a)) \o DataOnly(QueueTo(a, b))
                     \o DataOnly(UnreadOf(a)) = DataOnly(Forwardable(a))

\* C1: two clients on one code, in either order of arrival, are paired; every
\* binary frame within the limit that one sends is delivered to the other once
\* and in order, none lost, duplicated or invented; and both sessions end.
C1_RelayRoundTrip ==
    /\ []C1_InOrderOnce
    /\ \A a \in Pair : \A b \in Pair \ {a} :
          Paired(a, b) ~> (cstate[b] = "closed" \/ AllDelivered(a, b))
    /\ (\A k \in Pair : cstate[k] = "closed") ~> (\A k \in Pair : SessionEnded(k))

\* 2 joined 1; two binary frames went one way and one the other, all were
\* delivered, and both sessions have ended.
C1_Witness ==
    /\ peer[2] = 1
    /\ Len(DataOnly(FromSrc(recvd[2], 1))) >= 2
    /\ Len(DataOnly(FromSrc(recvd[1], 2))) >= 1
    /\ AllDelivered(1, 2) /\ AllDelivered(2, 1)
    /\ SessionEnded(1) /\ SessionEnded(2)

(***************************************************************************)
(* C2  A session joins at most two connections: no first peer has two      *)
(* second peers, no connection is both, and a client receives (and has     *)
(* queued for it) only frames of its own partner or the relay's Close.     *)
(***************************************************************************)
Partner(k) ==
    IF peer[k] # 0 THEN peer[k]
    ELSE IF SecondsOf(k) # {} THEN CHOOSE s \in SecondsOf(k) : TRUE
    ELSE 0

\* C2: a session joins at most two connections; a third client on the code is
\* never attached to it, and no frame crosses from one session to another.
C2_PairsExactlyTwo ==
    /\ \A k \in Clients : Cardinality(SecondsOf(k)) <= 1
    /\ \A k \in Clients : peer[k] # 0 => SecondsOf(k) = {} /\ peer[peer[k]] = 0
    /\ \A k \in Clients :
          /\ \A m \in Range(recvd[k]) : m = CloseNone \/ (m.src # 0 /\ m.src = Partner(k))
          /\ \A m \in Range(toFirst[k]) : m = CloseNone \/ (m.src # 0 /\ m.src = Partner(k))
          /\ \A m \in Range(fromFirst[k]) : m.src = k

\* 1 and 2 are paired on a code, 3 came later on the same code, became the first
\* peer of a new Channel, and the relay has read a frame it sent.
C2_Witness ==
    /\ peer[2] = 1
    /\ ccode[3] = ccode[1]
    /\ hpc[3] = "first"
    /\ peer[3] = 0
    /\ fromFirst[3] # <<>>
    /\ cstate[1] = "open" /\ cstate[2] = "open"

(***************************************************************************)
(* C3  When the identity-mode receive of the receive command fails with    *)
(* the tampered or the sender-mismatch error, the command ends with that   *)
(* error and never attempts the anonymous receive for the same code.       *)
(***************************************************************************)
FatalErrors == {"signature verification failed", "sender key mismatch"}

\* C3: once the identity-mode receive has failed with the tampered or the
\* sender-mismatch error, the anonymous receive is never attempted, and the
\* command's result is that error.
C3_NoFallback ==
    rcv.identity_err \in FatalErrors =>
        /\ ~rcv.anonymous
        /\ rcv.pc = "done" => rcv.result = rcv.identity_err

\* The receiver holds keys, the SignedEnvelope sent to it had its ciphertext
\* changed, the identity-mode receive has failed with the tampered error, and
\* the anonymous receive has run all the same.
C3_Witness ==
    /\ altered = {"ciphertext"}
    /\ rcv.own \in sealed.recipients
    /\ rcv.identity_err = "signature verification failed"
    /\ rcv.anonymous
    /\ rcv.pc = "done"
    /\ rcv.result # rcv.identity_err

(***************************************************************************)
(* C4  open(seal(p, [r], s)) with r's identity returns exactly p, and the  *)
(* declared sender signing key is s's verifying key; also after a          *)
(* to_bytes / from_bytes round trip.                                       *)
(***************************************************************************)
Untouched == sealed # NoSeal /\ altered = {}

\* C4: while nothing has changed the SignedEnvelope since seal(p, R, s), in
\* memory or through to_bytes and from_bytes, its declared sender key is the
\* base64 of s's verifying key, and open by a recipient r in R (naming no
\* expected sender, or s) returns exactly p.
C4_SealOpenRoundTrip ==
    /\ Untouched =>
          /\ senv.sender_sign_pubkey.valid
          /\ senv.sender_sign_pubkey.bytes = [len |-> 32, key |-> sealed.sender]
    /\ ( /\ Untouched
         /\ opened.called
         /\ opened.own \in sealed.recipients
         /\ opened.expected \in {0, sealed.sender} )
       => /\ opened.err = "none"
          /\ opened.plaintext = sealed.inner_bytes

\* r, the only recipient and not the sender, has opened a SignedEnvelope that
\* came through to_bytes and from_bytes.
C4_Witness ==
    /\ Untouched
    /\ sealed.via = "wire"
    /\ opened.called
    /\ sealed.recipients = {opened.own}
    /\ opened.own # sealed.sender
    /\ opened.plaintext = sealed.inner_bytes
    /\ opened.plaintext.json = "Envelope"

(***************************************************************************)
(* C5  open on a SignedEnvelope whose ciphertext was changed after sealing *)
(* fails with the tampered error, returns no plaintext and never attempts  *)
(* the decryption; in every open the signature check precedes decryption.  *)
(***************************************************************************)
CiphertextChanged == opened.called /\ altered = {"ciphertext"}

NotDecrypted ==
    /\ opened.plaintext = [json |-> "none", len |-> 0]
    /\ "decrypt" \notin Range(opened.steps)

VerifiedBeforeDecrypt ==
    \A i \in 1..Len(opened.steps) :
        opened.steps[i] = "decrypt" =>
            \E j \in 1..(i - 1) : opened.steps[j] = "verify"

\* C5 as stated: the error is the tampered one in every such call of open.
C5_AsStated ==
    /\ CiphertextChanged =>
          /\ opened.err = "signature verification failed"
          /\ NotDecrypted
    /\ VerifiedBeforeDecrypt

\* C5, amended: open on a SignedEnvelope whose ciphertext (alone) was changed
\* after sealing fails, returns no plaintext and never attempts the decryption;
\* the error is the tampered one unless an expected sender other than the
\* declared one was named, and then it is the sender-mismatch error.  In every
\* execution of open the signature check comes before the decryption step.
C5_TamperedRejected ==
    /\ CiphertextChanged =>
          /\ opened.err =
                IF opened.expected \in {0, sealed.sender}
                THEN "signature verification failed"
                ELSE "sender key mismatch"
          /\ NotDecrypted
    /\ VerifiedBeforeDecrypt

\* A recipient has opened, naming no expected sender, a SignedEnvelope whose
\* ciphertext was changed, and got the tampered error.
C5_Witness ==
    /\ CiphertextChanged
    /\ opened.own \in sealed.recipients
    /\ opened.expected = 0
    /\ opened.err = "signature verification failed"
    /\ opened.steps = <<"decode key", "decode signature", "verify">>

(***************************************************************************)
(* C6  open with an expected_sender whose verifying key differs from the   *)
(* declared sender signing key returns the sender-mismatch error and no    *)
(* plaintext, even when the signature is valid and the receiver is a       *)
(* recipient.                                                              *)
(***************************************************************************)
DeclaredKey ==
    IF /\ senv.sender_sign_pubkey.valid
       /\ senv.sender_sign_pubkey.bytes.len = 32
       /\ senv.sender_sign_pubkey.bytes.key # 0
    THEN senv.sender_sign_pubkey.bytes.key
    ELSE 0

\* C6: whenever open is called with an expected sender whose verifying key is
\* not the key the SignedEnvelope declares, it returns the sender-mismatch
\* error, which is neither the tampered nor the decryption error, and no
\* plaintext, whatever the signature and the recipients are.
C6_SenderMismatch ==
    ( /\ opened.called
      /\ opened.expected # 0
      /\ DeclaredKey # 0
      /\ DeclaredKey # opened.expected )
    => /\ opened.err = "sender key mismatch"
       /\ opened.err \notin {"signature verification failed", "decryption failed"}
       /\ opened.plaintext = [json |-> "none", len |-> 0]

\* A recipient of an unchanged SignedEnvelope has opened it expecting another
\* sender than the one who sealed it.
C6_Witness ==
    /\ Untouched
    /\ opened.called
    /\ opened.own \in sealed.recipients
    /\ opened.expected \notin {0, sealed.sender}
    /\ opened.err = "sender key mismatch"

(***************************************************************************)
(* C7  check_age(n) returns Ok exactly when                                *)
(* now - n <= created_at <= now + 60, for every now, n and created_at.     *)
(***************************************************************************)
InWindow(created_at, n, t) == t - n <= created_at /\ created_at <= t + 60

\* C7 as stated: Ok exactly when created_at lies in [now - n, now + 60].
C7_AsStated ==
    aged.called =>
        (aged.result = "ok" <=> InWindow(env.created_at, aged.max_age_secs, clock))

\* C7, amended: check_age(n) returns Ok exactly when created_at is not 0 and
\* now - n <= created_at <= now + 60; it returns an error for every other
\* created_at, 0 included.
C7_CheckAge ==
    aged.called =>
        (aged.result = "ok" <=>
            /\ env.created_at # 0
            /\ InWindow(env.created_at, aged.max_age_secs, clock))

\* check_age(n), with n > 0, has accepted an envelope exactly n seconds old: its
\* timestamp, not 0, is the lower edge of the window.
C7_Witness ==
    /\ aged.called
    /\ aged.max_age_secs > 0
    /\ clock > aged.max_age_secs
    /\ env.created_at = clock - aged.max_age_secs
    /\ aged.result = "ok"

(***************************************************************************)
(* C8  No binary frame over max_payload_bytes is forwarded or delivered,   *)
(* nor is any frame its sender sent after it.                              *)
(***************************************************************************)
NoneAfterOversized(q) ==
    \A m \in Range(q) :
        m.src # 0 => \A i \in 1..m.seq : ~TooBig(sent[m.src][i])

\* C8: nothing received by a client or queued for one is a binary frame over
\* max_payload_bytes, or a frame its sender sent after such a frame.
C8_OversizedNeverDelivered ==
    \A k \in Clients :
        /\ NoneAfterOversized(recvd[k])
        /\ NoneAfterOversized(toFirst[k])
        /\ NoneAfterOversized(fromFirst[k])

\* A paired client sent a frame within the limit, an oversized one and then
\* another within the limit; its peer, still open, has received the first only.
C8_Witness ==
    \E a \in Pair, b \in Pair :
        /\ Paired(a, b)
        /\ Len(sent[a]) = 3
        /\ ~TooBig(sent[a][1]) /\ TooBig(sent[a][2])
        /\ sent[a][3].kind = "binary" /\ ~TooBig(sent[a][3])
        /\ fwdOut[a] = "done"
        /\ cstate[b] = "open"
        /\ FromSrc(recvd[b], a) = <<sent[a][1]>>

(***************************************************************************)
(* C9  An upgrade is rejected (429) exactly when its IP already has        *)
(* rate_limit_per_min accepted upgrades less than 60 seconds old.          *)
(***************************************************************************)
RecentAccepted(k) ==
    {j \in Clients : /\ j < k
                     /\ cstate[j] \in {"open", "closed"}
                     /\ cip[j] = cip[k]
                     /\ upAt[k] - upAt[j] < 60}

\* C9: an upgrade is rejected exactly when rate_limit_per_min upgrades of its own
\* IP were accepted in the 60 seconds before it; other IPs do not count.
C9_RateLimit ==
    \A k \in Clients :
        cstate[k] # "idle" =>
            (cstate[k] = "rejected" <=> Cardinality(RecentAccepted(k)) >= rate_limit_per_min)

\* An upgrade was rejected: rate_limit_per_min upgrades of its IP had been
\* accepted before it, one of them earlier on the clock but inside the window.
C9_Witness ==
    \E k \in Clients :
        /\ cstate[k] = "rejected"
        /\ Cardinality(RecentAccepted(k)) = rate_limit_per_min
        /\ \E j \in RecentAccepted(k) : upAt[j] < upAt[k]

(***************************************************************************)
(* C10  The map never holds more than max_channels Channels: a connection  *)
(* on a code without a waiting peer is refused with a Close while the map  *)
(* is full and inserts nothing; one on a code with a waiting peer pairs.   *)
(***************************************************************************)
NumWaiting == Cardinality({c \in Codes : channels[c].owner # 0})

\* C10, step by step: what a connection's join does to the map.
C10_JoinOutcome ==
    \A k \in Clients :
        (hpc[k] = "join" /\ hpc'[k] # "join") =>
            IF channels[ccode[k]].owner # 0
            THEN peer'[k] = channels[ccode[k]].owner /\ hpc'[k] = "second"
            ELSE IF NumWaiting >= max_channels
            THEN /\ channels' = channels
                 /\ hpc'[k] = "done"
                 /\ fwdOut'[k] = "none" /\ fwdIn'[k] = "none"
                 /\ cstate[k] = "open" =>
                      recvd'[k] = Append(recvd[k], CloseNone)
            ELSE channels'[ccode[k]].owner = k

\* C10: the map never holds more than max_channels entries; a first peer that
\* connects while it is full gets a Close and inserts nothing; a connection on a
\* code with a waiting peer pairs with it all the same.
C10_MaxChannels ==
    /\ [](NumWaiting <= max_channels)
    /\ [][C10_JoinOutcome]_vars

\* One client found the map full and was refused with a Close; a later one, on
\* the code of the waiting peer, has paired with it.
C10_Witness ==
    \E k \in Clients, s \in Clients :
        /\ hpc[k] = "done" /\ fwdOut[k] = "none" /\ recvd[k] = <<CloseNone>>
        /\ k < s
        /\ peer[s] # 0 /\ peer[s] < k

(***************************************************************************)
(* C11  With several codes in use at once, a frame of a client on one code *)
(* never reaches a client on another code, and each pair gets exactly its  *)
(* own sender's data.                                                      *)
(***************************************************************************)
SameCodeOnly(k, q) == \A m \in Range(q) : m.src # 0 => ccode[m.src] = ccode[k]

\* C11: whatever a client has received, or has queued for it, was sent on that
\* client's own code, by its own partner; and what it has received from the
\* partner is the first of what the partner sent, in the order sent.
C11_CodesIsolated ==
    \A k \in Clients :
        /\ SameCodeOnly(k, recvd[k])
        /\ SameCodeOnly(k, toFirst[k])
        /\ SameCodeOnly(k, fromFirst[k])
        /\ \A m \in Range(recvd[k]) : m.src # 0 => m.src = Partner(k)
        /\ Partner(k) # 0 =>
              IsPrefix(DataOnly(FromSrc(recvd[k], Partner(k))),
                       DataOnly(Forwardable(Partner(k))))

\* Two pairs on two codes at the same time: in each a frame has been delivered
\* while the other pair's clients were still connected.
C11_Witness ==
    \E a \in Clients, b \in Clients, c \in Clients, d \in Clients :
        /\ peer[b] = a /\ peer[d] = c
        /\ ccode[a] # ccode[c]
        /\ DataOnly(recvd[a]) # <<>>
        /\ DataOnly(recvd[d]) # <<>>
        /\ \A k \in {a, b, c, d} : cstate[k] = "open"

(***************************************************************************)
(* C18  validate_identity_name succeeds exactly on the names that are      *)
(* non-empty, hold no path separator, no "..", no NUL, no ASCII control    *)
(* character and no whitespace character, and do not start with a dot.     *)
(***************************************************************************)
\* A whitespace character: the Unicode White_Space property.
is_whitespace(c) ==
    \/ c \in 9..13
    \/ c \in {32, 133, 160, 5760, 8232, 8233, 8239, 8287, 12288}
    \/ c \in 8192..8202

SafeName(t) ==
    /\ t # <<>>
    /\ ~contains_char(t, 47) /\ ~contains_char(t, 92)
    /\ ~contains(t, <<46, 46>>)
    /\ ~contains_char(t, 0)
    /\ \A i \in 1..Len(t) : ~is_ascii_control(t[i]) /\ ~is_whitespace(t[i])
    /\ ~starts_with(t, 46)

\* C18: a call of validate_identity_name has returned Ok exactly when the name
\* is non-empty, holds no '/' or '\', no "..", no NUL, no ASCII control
\* character and no whitespace character, and does not start with '.'.
C18_ExactlySafeNames ==
    cmd.op = "validate_identity_name" => (cmd.result = "ok" <=> SafeName(cmd.name))

\* The call has returned Ok for a name that holds a whitespace character.
C18_Witness ==
    /\ cmd.op = "validate_identity_name"
    /\ cmd.result = "ok"
    /\ \E i \in 1..Len(cmd.name) : is_whitespace(cmd.name[i])

(***************************************************************************)
(* C19  push and listen refuse, before any connection is opened, every     *)
(* channel id that is not one or more of A-Z, a-z, 0-9 and '-', and go on  *)
(* with every id that is.                                                  *)
(***************************************************************************)
MatchesPattern(t) ==
    /\ Len(t) >= 1
    /\ \A i \in 1..Len(t) : is_ascii_alphanumeric(t[i]) \/ t[i] = 45

\* C19: a push or listen has been refused for its channel id, with no
\* connection opened, exactly when the id does not match [A-Za-z0-9-]+.
C19_OnlyMatchingIds ==
    cmd.op \in {"push", "listen"} =>
        /\ ~MatchesPattern(cmd.channel_id) =>
              cmd.result = "invalid channel code" /\ ~cmd.connected
        /\ MatchesPattern(cmd.channel_id) => cmd.result # "invalid channel code"

\* A push with the empty channel id has gone on to open its connection.
C19_Witness ==
    /\ cmd.op = "push"
    /\ cmd.channel_id = <<>>
    /\ cmd.connected

(***************************************************************************)
(* C12  Every identity-mode send seals to the sender's own encryption key  *)
(* as well as to the resolved recipients, so the sender can open what was  *)
(* sent.                                                                   *)
(***************************************************************************)
\* C12: after a share --to by any of its routes (file drop, relay push,
\* rendezvous), the recipients given to SignedEnvelope::seal include the
\* sender's own key, and the sender's open of what was sent succeeds.
C12_OwnKeyIncluded ==
    cmd.op = "share" /\ cmd.result = "ok" =>
        /\ sealed.sender \in sealed.recipients
        /\ opened.called /\ opened.own = sealed.sender => opened.err = "none"

\* A file drop to one trusted name was sealed to that name's key alone, and
\* the sender's own open of it has failed at the decryption.
C12_Witness ==
    /\ cmd.op = "share" /\ cmd.result = "ok" /\ cmd.route = "filedrop"
    /\ sealed.sender = Own
    /\ sealed.recipients = {KeyOf(cmd.to)}
    /\ opened.called /\ opened.own = Own
    /\ opened.err = "decryption failed"

(***************************************************************************)
(* C14  While and after an identity is saved, no private-key file holds    *)
(* key material and is readable by anyone but its owner.                   *)
(***************************************************************************)
ReadableByOthers(f) == f.mode \cap {"gr", "or"} # {}

\* C14: at every moment of keys init, and after it, a private-key file that
\* holds the key is readable by its owner alone, also when a file with looser
\* permissions was at that path before.
C14_NeverExposed ==
    \A p \in PrivateKeyPaths :
        fs[p].exists /\ fs[p].content = "key" => ~ReadableByOthers(fs[p])

\* write_private has written the key into a file that was there before with
\* mode 0644 and has not yet set its permissions.
C14_Witness ==
    /\ cmd.op = "keys init" /\ cmd.step = "set_permissions"
    /\ SaveOrder[cmd.at] = "self.age.key"
    /\ fs["self.age.key"].content = "key"
    /\ fs["self.age.key"].mode = Mode0644

(***************************************************************************)
(* C15  A file written with a secret payload or its ciphertext has mode    *)
(* 0600 when the write is complete.                                        *)
(***************************************************************************)
WritingCommands == {"share", "encrypt", "decrypt", "receive"}

\* The command in hand has written its destination file.
HasWritten ==
    /\ cmd.op \in WritingCommands
    /\ cmd.result = "ok"
    /\ fs["out"].content \in {"wire bytes", "ciphertext", "plaintext", "payload"}

\* C15: once a file drop, an encrypt, a decrypt or a receive has written its
\* file, the file has mode 0600, also when a file with looser permissions was
\* at the destination before.
C15_WrittenOwnerOnly == HasWritten => fs["out"].mode = Mode0600

\* The receive command has written the payload to a path where no file was,
\* and the file is readable by everyone.
C15_Witness ==
    /\ HasWritten
    /\ cmd.op = "receive"
    /\ ~cmd.before.exists
    /\ fs["out"].content = "payload"
    /\ fs["out"].mode = Mode0644

(***************************************************************************)
(* C16  An existing destination file is replaced only after the user has   *)
(* confirmed on a terminal or passed force; without a terminal and without *)
(* force it is left as it was and the command fails.                       *)
(***************************************************************************)
\* The user has allowed the command in hand to overwrite.  Only encrypt and
\* decrypt have a force option or ask.
Allowed ==
    /\ cmd.op \in {"encrypt", "decrypt", "receive"}
    /\ cmd.force \/ (cmd.terminal /\ cmd.confirm)

\* The command in hand could neither ask nor was it forced.  The file drop
\* does the same with and without a terminal.
CannotAsk ==
    \/ cmd.op = "share"
    \/ cmd.op \in {"encrypt", "decrypt", "receive"} /\ ~cmd.force /\ ~cmd.terminal

\* C16: a command whose destination existed has replaced it only if the user
\* confirmed on a terminal or passed force; run without a terminal and without
\* force it has failed and the file is as it was.
C16_NoSilentOverwrite ==
    cmd.op \in WritingCommands /\ cmd.before.exists =>
        /\ fs["out"] # cmd.before => Allowed
        /\ CannotAsk => fs["out"] = cmd.before /\ cmd.result # "ok"

\* The receive command, run without a terminal, has replaced a file that was
\* there before and ended well.
C16_Witness ==
    /\ cmd.op = "receive"
    /\ cmd.before.exists /\ cmd.before.content = "old"
    /\ ~cmd.terminal
    /\ cmd.result = "ok"
    /\ fs["out"].content = "payload"

(***************************************************************************)
(* C17  resolve_to_identities consults the aliases, then the groups, then  *)
(* the trusted keys.                                                       *)
(***************************************************************************)
IsAlias(n) == n \in Names /\ store.aliases[n] # NoName

IsGroup(n) == n \in Names /\ store.groups[n].exists

IsTrusted(n) == n \in store.trusted

\* C17: a call of resolve_to_identities(name) has returned the alias target if
\* name is an alias; else the members if name is a group, and an error if that
\* group is empty; else [name] if name has a trusted key; else an error.
C17_ResolutionOrder ==
    cmd.op = "resolve" =>
        LET n == cmd.name
        IN  IF IsAlias(n)
            THEN cmd.result = "ok" /\ cmd.identities = <<store.aliases[n]>>
            ELSE IF IsGroup(n)
            THEN IF store.groups[n].members = <<>>
                 THEN cmd.result # "ok"
                 ELSE cmd.result = "ok" /\ cmd.identities = store.groups[n].members
            ELSE IF IsTrusted(n)
            THEN cmd.result = "ok" /\ cmd.identities = <<n>>
            ELSE cmd.result # "ok"

\* A name that is an alias, a group with a member and a trusted key at once
\* has been resolved, as the alias.
C17_Witness ==
    /\ cmd.op = "resolve"
    /\ IsAlias(cmd.name) /\ IsGroup(cmd.name) /\ IsTrusted(cmd.name)
    /\ store.groups[cmd.name].members # <<>>
    /\ store.groups[cmd.name].members # <<store.aliases[cmd.name]>>
    /\ cmd.identities = <<store.aliases[cmd.name]>>

(***************************************************************************)
(* C13  Envelope::from_bytes yields an envelope only from a text within    *)
(* 16 MiB, of version 1, whose hash is that of its payload; a text changed *)
(* in payload or hash fails the hash check; an unchanged one yields the    *)
(* payload that was sealed.                                                *)
(***************************************************************************)
\* The call has yielded an envelope only from a text it was right to accept.
OnlyValid ==
    cmd.err = "none" =>
        /\ wire.len <= MaxEnvelopeBytes
        /\ wire.version = 1
        /\ wire.sha256 = hex_sha256(wire.payload)
        /\ cmd.envelope.payload = wire.payload

\* The payload alone, or the hash alone, was changed after sealing.
PayloadOrHashAltered == altered = {"payload"} \/ altered = {"sha256"}

\* C13 (as stated): from_bytes returns an envelope only if the input is at most
\* 16 MiB, of version 1 and with the hash of its payload; on an envelope whose
\* payload or hash was altered it fails with the hash-mismatch error; and on
\* to_bytes(seal(p)) unaltered it returns payload p -- for every p.
C13_AsStated ==
    cmd.op = "from_bytes" =>
        /\ OnlyValid
        /\ PayloadOrHashAltered => cmd.err = "hash mismatch"
        /\ altered = {} => cmd.err = "none" /\ cmd.envelope.payload = env.payload

\* C13: from_bytes returns an envelope only if the input is at most 16 MiB, of
\* version 1 and with the hash of its payload; on a text within 16 MiB whose
\* payload or hash was altered it fails with the hash-mismatch error, and on
\* one beyond 16 MiB with the size error; on to_bytes(seal(p)) unaltered it
\* returns payload p when that text is within 16 MiB, and the size error when
\* it is not.
C13_FromBytes ==
    cmd.op = "from_bytes" =>
        /\ OnlyValid
        /\ wire.len > MaxEnvelopeBytes => cmd.err = "too large"
        /\ PayloadOrHashAltered /\ wire.len <= MaxEnvelopeBytes =>
              cmd.err = "hash mismatch"
        /\ altered = {} /\ wire.len <= MaxEnvelopeBytes =>
              cmd.err = "none" /\ cmd.envelope.payload = env.payload

\* from_bytes has refused, for its hash, a text within the limit whose payload
\* had been changed after sealing.
C13_Witness ==
    /\ cmd.op = "from_bytes"
    /\ altered = {"payload"}
    /\ wire.len <= MaxEnvelopeBytes
    /\ wire.payload # env.payload
    /\ cmd.err = "hash mismatch"

(***************************************************************************)
(* C20  A push or listen does not wait forever.  Every call returns and    *)
(* has dropped its connection by then; a call that returns without the     *)
(* relay or a peer having ended it (it was not refused, no Binary or Close *)
(* frame has reached it and the relay still holds its connection) returns  *)
(* the timeout error, and only once RELAY_TIMEOUT has passed; and the      *)
(* relay's handler for the call's connection returns as well.              *)
(***************************************************************************)
Unanswered(k) ==
    /\ cstate[k] # "rejected"
    /\ Answers(recvd[k]) = <<>>
    /\ ~StreamEnded(k)

HandlerOfCallReturned == cmd.op \in RelayOps /\ HandlerReturned(cmd.client)

TimedOut == Returned /\ cmd.result = "timed out"

C20_BoundedWait ==
    /\ Calling ~> Returned
    /\ [](Returned => cstate[cmd.client] # "open")
    /\ [](Returned /\ Unanswered(cmd.client) => TimedOut)
    /\ [](TimedOut => now - cmd.started >= RELAY_TIMEOUT)
    /\ (Calling /\ hpc[cmd.client] # "none") ~> HandlerOfCallReturned

\* A call that reached the relay, met no peer, has timed out, and whose
\* handler at the relay has returned.
C20_Witness ==
    /\ TimedOut
    /\ cstate[cmd.client] = "closed"
    /\ peer[cmd.client] = 0
    /\ \A s \in Clients : peer[s] # cmd.client
    /\ Unanswered(cmd.client)
    /\ HandlerOfCallReturned

(***************************************************************************)
(* C30  Two clients connect on the same code, which no other connection    *)
(* uses, while the map has room for it (no other connection holds or held  *)
(* a Channel): whatever the interleaving of their handlers, once both are  *)
(* through the pairing decision, still connected, within the TTL of their  *)
(* arrival and neither has sent a frame that stops its forwarding loop,    *)
(* one is the first peer and the other is paired with it as second peer,   *)
(* and the Channel is out of the map.  No insert ever replaces a Channel   *)
(* that is in the map.                                                     *)
(***************************************************************************)
Decided(k) == hpc[k] \notin {"none", "clean", "join"}

Refused(k) == hpc[k] = "done" /\ fwdOut[k] = "none"

NeverInserted(k) == ~Decided(k) \/ Refused(k)

ConcurrentOnFreshCode(a, b) ==
    /\ a # b
    /\ ccode[a] = ccode[b]
    /\ \A x \in Clients \ {a, b} : NeverInserted(x) /\ (cstate[x] # "idle" => ccode[x] # ccode[a])
    /\ \A k \in {a, b} :
          /\ cstate[k] = "open"
          /\ Decided(k)
          /\ now - upAt[k] < channel_ttl_secs
          /\ FirstStop(k) = Len(sent[k]) + 1

NoOverwrite ==
    \A c \in Codes :
        channels[c].owner # 0 /\ channels'[c].owner # 0 => channels'[c] = channels[c]

C30_OneOfEach ==
    \A a \in Clients, b \in Clients :
        ConcurrentOnFreshCode(a, b) =>
            /\ Paired(a, b)
            /\ IsFirst(a) # IsFirst(b)
            /\ IsSecond(a) # IsSecond(b)
            /\ channels[ccode[a]].owner = 0

\* C30: of two clients that connect concurrently on a fresh code exactly one
\* becomes the first peer and the other its second peer; never do both insert
\* a Channel, nor do both wait unpaired.
C30_ExactlyOneFirst == []C30_OneOfEach /\ [][NoOverwrite]_vars

\* Both handlers had cleaned the map before either decided; 2 is now paired
\* with 1, a third connection on the other code was refused meanwhile, and a
\* frame of each has reached the other.
C30_Witness ==
    /\ ConcurrentOnFreshCode(1, 2)
    /\ peer[2] = 1
    /\ Refused(3)
    /\ fromFirst[1] = <<>> /\ sent[1] # <<>>
    /\ recvd[2] # <<>>

(***************************************************************************)
(* C24  A Channel leaves the map only when a second peer pairs with its    *)
(* owner, when it is evicted for its age, or when the handler of its own   *)
(* owner cleans up: the cleanup of a first-peer handler never removes the  *)
(* Channel another client has inserted on the same code since.             *)
(***************************************************************************)
RemovedByPairing(c) ==
    \E s \in Clients : peer[s] = 0 /\ peer'[s] = channels[c].owner

RemovedByOwner(c) ==
    LET f == channels[c].owner IN hpc[f] = "first" /\ hpc'[f] = "done"

OnlyOwnChannelRemoved ==
    \A c \in Codes :
        channels[c].owner # 0 /\ channels'[c].owner = 0 =>
            \/ RemovedByPairing(c)
            \/ Expired(channels[c], now)
            \/ RemovedByOwner(c)

\* C24: the cleanup of a first-peer handler removes only the Channel that
\* handler inserted, so a waiting first peer is never dropped because an
\* earlier session on its code ended.
C24_CleanupRemovesOwnChannel == [][OnlyOwnChannelRemoved]_vars

\* 1 was paired with 2 and its handler has not cleaned up yet; 3 came on the
\* same code afterwards and waits in the map as the first peer of a new
\* Channel.
C24_Witness ==
    /\ peer[2] = 1
    /\ hpc[1] = "first"
    /\ ccode[3] = ccode[1]
    /\ channels[ccode[3]].owner = 3
    /\ cstate[3] = "open"

(***************************************************************************)
(* C28  The relay forwards binary frames only: no text frame a client has  *)
(* sent is ever queued for, or delivered to, its peer, whatever its size.  *)
(***************************************************************************)
IsText(m) == m.kind = "text"

\* C28: a text frame sent by a client is ignored by the relay and never
\* delivered to the peer.
C28_TextNeverForwarded ==
    \A k \in Clients :
        /\ \A m \in Range(recvd[k]) : ~IsText(m)
        /\ \A m \in Range(toFirst[k]) : ~IsText(m)
        /\ \A m \in Range(fromFirst[k]) : ~IsText(m)

\* 2 is paired with 1, 1 has sent a text frame, and the relay has read all
\* that 1 sent and passed on all it queued.
C28_Witness ==
    /\ peer[2] = 1
    /\ \E m \in Range(sent[1]) : IsText(m)
    /\ wsIn[1] = <<>>
    /\ fromFirst[1] = <<>>
    /\ cstate[1] = "open" /\ cstate[2] = "open"

(***************************************************************************)
(* C23  Two paired clients: once a forwarding loop of their session has    *)
(* ended (on a Close frame, an oversized frame or a failed send), no frame *)
(* a peer sends from then on is delivered to the other, and the relay lets *)
(* go of both connections.                                                 *)
(***************************************************************************)
Stopped(a, b) ==
    /\ Paired(a, b)
    /\ \E k \in {a, b} : fwdOut[k] = "done" \/ fwdIn[k] = "done"

\* Nothing a has sent is still on its way to b.
NothingInFlight(a, b) == wsIn[a] = <<>> /\ FromSrc(QueueTo(a, b), a) = <<>>

DeliveredFrom(a, b) == Len(FromSrc(recvd[b], a))

\* C23: after a Close frame, an oversized frame or a failed send, forwarding
\* stops in both directions and the relay eventually closes both connections.
C23_StopsBothWays ==
    /\ \A a \in Pair : \A b \in Pair \ {a} : \A n \in 0..MaxPairFrames :
          [](Stopped(a, b) /\ NothingInFlight(a, b) /\ DeliveredFrom(a, b) = n
                => [](DeliveredFrom(a, b) = n))
    /\ \A a \in Pair : \A b \in Pair \ {a} :
          Stopped(a, b) ~> (~SocketHeld(a) /\ ~SocketHeld(b))

\* 2 is paired with 1 and has sent an oversized frame, on which its loop has
\* ended; both are still connected and nothing of 1 is on its way to 2.
C23_Witness ==
    /\ peer[2] = 1
    /\ \E m \in Range(sent[2]) : TooBig(m)
    /\ fwdOut[2] = "done"
    /\ cstate[1] = "open" /\ cstate[2] = "open"
    /\ NothingInFlight(1, 2)
    /\ Len(sent[1]) < MaxPairFrames

(***************************************************************************)
(* C29  What a push returns.  As claimed: Ok only when a frame of the      *)
(* peer (the acknowledgement) has arrived.  As the code has it: Ok when,   *)
(* after sending its data frame, it has read a Binary or a Close frame or  *)
(* the connection has ended; an error only when the connection was         *)
(* refused, the data frame could not be sent, or RELAY_TIMEOUT passed.     *)
(***************************************************************************)
PushReturned == Returned /\ cmd.op = "push"

Acknowledged(k) == \E m \in Range(recvd[k]) : m.kind = "binary" /\ m.src # 0

Age(ch, t) == t - ch.created_at

EvictionStepOf(k) == hpc[k] = "clean" /\ hpc'[k] = "join"

DecisionStepOf(k) == hpc[k] = "join" /\ hpc'[k] # "join"

NoStaleEntryAfterEviction ==
    \A k \in Clients :
        EvictionStepOf(k) =>
            \A c \in Codes :
                channels'[c].owner # 0 => Age(channels'[c], now) < channel_ttl_secs

NeverPairedWithStale ==
    \A k \in Clients :
        DecisionStepOf(k) /\ peer'[k] # 0 =>
            /\ channels[ccode[k]].owner = peer'[k]
            /\ Age(channels[ccode[k]], upAt[k]) < channel_ttl_secs

InsertsFreshChannel ==
    \A k \in Clients :
        DecisionStepOf(k) /\ hpc'[k] = "first" =>
            channels'[ccode[k]] = [owner |-> k, created_at |-> now]

\* C26: a client that connects on a code whose waiting Channel is older than
\* the TTL is never paired with that stale first peer; the entry is evicted
\* before the pairing decision, and no entry older than the TTL is left in the
\* map by the eviction step of any connection.
C26_StaleEvicted ==
    [][NoStaleEntryAfterEviction /\ NeverPairedWithStale /\ InsertsFreshChannel]_vars

\* 1 waited on a code for the whole TTL and is still connected; 2 arrived on
\* that code after that, and is now the first peer of a Channel of its own.
C26_Witness ==
    /\ ccode[2] = ccode[1]
    /\ cstate[1] = "open" /\ IsFirst(1) /\ SecondsOf(1) = {}
    /\ upAt[2] - upAt[1] >= channel_ttl_secs
    /\ hpc[2] = "first"
    /\ channels[ccode[2]].owner = 2
    /\ peer[2] = 0

(***************************************************************************)
(* C27  A first peer that closes while unpaired: its Channel leaves the    *)
(* map; once its handler has cleaned up, still unpaired, it stays unpaired *)
(* for good, the frames it had sent are gone from the relay and no client  *)
(* has received or will receive any of them; and a client that then        *)
(* connects on its code, the map having room, becomes a first peer.        *)
(***************************************************************************)
Departed(a) ==
    /\ cstate[a] = "closed"
    /\ IsFirst(a)
    /\ hpc[a] = "done"
    /\ SecondsOf(a) = {}

DepartedIsGone ==
    \A a \in Pair :
        Departed(a) =>
            /\ ~Waiting(a)
            /\ fromFirst[a] = <<>>
            /\ \A b \in Clients : FromSrc(recvd[b], a) = <<>>

DepartedStaysGone ==
    \A a \in Pair : Departed(a) => Departed(a)'

NewFirstAfterDeparture ==
    \A a \in Pair : \A b \in Pair \ {a} :
        /\ Departed(a)
        /\ ccode[b] = ccode[a]
        /\ DecisionStepOf(b)
        /\ ~MapFull(channels)
        => hpc'[b] = "first" /\ channels'[ccode[b]].owner = b

\* C27: the Channel of a first peer that closes while unpaired is eventually
\* removed from the map, and a client that connects on the code afterwards
\* becomes a new first peer and receives none of the departed peer's frames.
C27_DepartedFirstRemoved ==
    /\ \A a \in Pair : (cstate[a] = "closed" /\ Waiting(a)) ~> ~Waiting(a)
    /\ []DepartedIsGone
    /\ [][DepartedStaysGone /\ NewFirstAfterDeparture]_vars

\* 1 sent a frame, closed unpaired and its handler has cleaned up; 2 then
\* came on the same code and waits as the first peer of a new Channel, having
\* received nothing.
C27_Witness ==
    /\ Departed(1)
    /\ DataOnly(sent[1]) # <<>>
    /\ ccode[2] = ccode[1]
    /\ hpc[2] = "first"
    /\ Waiting(2)
    /\ recvd[2] = <<>>

(***************************************************************************)
(* C25  On every receive path an Envelope reaches the caller only if       *)
(* check_age accepted it at that moment, with the bound of the path: 300   *)
(* seconds on the network paths, 86 400 seconds on a file drop.  So no     *)
(* envelope older than its bound is printed, written or injected.          *)
(***************************************************************************)
BoundOf(path) == IF path = "filedrop" THEN 86400 ELSE 300

Handed == cmd.op = "receive" /\ cmd.err = "none"

\* C25: an envelope is handed to the caller only after check_age succeeded on
\* it with the bound of its path, and never when it is older than that bound.
C25_AgeCheckedOnEveryPath ==
    Handed =>
        /\ cmd.envelope # NoEnvelope
        /\ check_age(cmd.envelope, BoundOf(cmd.path), cmd.at) = "ok"
        /\ cmd.at - cmd.envelope.created_at <= BoundOf(cmd.path)

\* A file drop was read on the last second of its day and handed over; on a
\* network path the same envelope is too old.
C25_Witness ==
    /\ Handed
    /\ cmd.path = "filedrop"
    /\ cmd.at - cmd.envelope.created_at = 86400
    /\ check_age(cmd.envelope, 300, cmd.at) = "expired"

(***************************************************************************)
(* C21  Decrypting, with the identity of a recipient, what encrypt_per_var *)
(* made of a parsed .env file gives the key/value pairs of the file in     *)
(* their order, and the comments and blank lines stay where they were, in  *)
(* the encrypted file and in the decrypted one.                            *)
(***************************************************************************)
DecryptedByRecipient ==
    cmd.op = "decrypt" /\ cmd.identity \in cmd.recipients

SameStructure(entries, other) ==
    /\ Len(other) = Len(entries)
    /\ \A n \in 1..Len(entries) :
          IF IsKeyValue(entries[n])
          THEN IsKeyValue(other[n]) /\ other[n].key = entries[n].key
          ELSE other[n] = entries[n]

\* C21: decrypt_per_var(encrypt_per_var(E, recipients), i) for a recipient i
\* succeeds with the vars() of E, and every comment and blank entry of E is
\* at its position, unchanged, in the encrypted and in the decrypted file.
C21_PerVarRoundTrip ==
    DecryptedByRecipient =>
        /\ cmd.err = "none"
        /\ EnvFile_vars(cmd.out) = EnvFile_vars(cmd.env)
        /\ SameStructure(cmd.env, cmd.enc)
        /\ SameStructure(cmd.env, cmd.out)

\* A file with a comment, a blank line and a value came back, and its value
\* was not readable in the encrypted file.
C21_Witness ==
    /\ DecryptedByRecipient
    /\ cmd.recipients = {cmd.identity}
    /\ \E a, b, c \in 1..Len(cmd.env) :
          /\ cmd.env[a].kind = "Comment"
          /\ cmd.env[b].kind = "Blank"
          /\ IsKeyValue(cmd.env[c])
          /\ cmd.env[c].value # <<>>
          /\ cmd.enc[c].value # cmd.env[c].value
          /\ cmd.out[c].value = cmd.env[c].value

(***************************************************************************)
(* C22  The text written for an encrypted file shows none of the values.   *)
(* The keys, the comments and the ENC[age:...] wrapper with its base64     *)
(* text are in that text, so a value that is empty or is made of their     *)
(* characters can be found in it.                                          *)
(***************************************************************************)
EncryptedPerVar == cmd.op = "encrypt" /\ cmd.err = "none"

ValuesOf(entries) == {entries[n].value : n \in {m \in 1..Len(entries) : IsKeyValue(entries[m])}}

\* The characters of the file's keys and comments.
VisibleChars(entries) ==
    UNION {IF IsKeyValue(entries[n])
           THEN {entries[n].key[m] : m \in 1..Len(entries[n].key)}
           ELSE IF entries[n].kind = "Comment"
           THEN {entries[n].text[m] : m \in 1..Len(entries[n].text)}
           ELSE {} : n \in 1..Len(entries)}

\* A character that the encrypted text has for no other reason than a value:
\* not a base64 character, not '[', ':' or ']', not '=' or the line feed, and
\* in no key and no comment.
OnlyInValues(ch, entries) ==
    /\ ~is_base64_char(ch)
    /\ ch.c \notin {91, 58, 93, 61, 10}
    /\ ch \notin VisibleChars(entries)

C22_AsStated ==
    EncryptedPerVar => \A v \in ValuesOf(cmd.env) : ~contains(cmd.text, v)

\* C22: in the serialised output of encrypt_per_var(E) every value is of the
\* form ENC[age:<base64>], and no value of E that has a character found
\* neither in base64 text, the wrapper, the keys nor the comments is a
\* substring of the output.
C22_NoPlaintextValue ==
    EncryptedPerVar =>
        /\ \A v \in ValuesOf(cmd.out) : is_encrypted_value(v)
        /\ \A v \in ValuesOf(cmd.env) :
              (\E n \in 1..Len(v) : OnlyInValues(v[n], cmd.env)) => ~contains(cmd.text, v)

\* A file with the value "@K" was encrypted, and its text shows its key and
\* not its value.
C22_Witness ==
    /\ EncryptedPerVar
    /\ Str(<<64, 75>>) \in ValuesOf(cmd.env)
    /\ OnlyInValues(Lit(64), cmd.env)
    /\ contains(cmd.text, Str(<<75, 61>>) \o PER_VAR_PREFIX)
    /\ ~contains(cmd.text, Str(<<64, 75>>))

====
